---- MODULE Spec2Model ----
(***************************************************************************)
(* A model of the multi-tenant control plane in src/src/control_plane:     *)
(*   - InMemoryAuditStore / JsonAuditLogger        (audit.py)              *)
(*   - SecretRef.resolve and the auth configs      (config.py)             *)
(*   - GraphAuthenticator.acquire_token            (auth.py)               *)
(*   - GraphClient.request and its retry loop      (graph_client.py)       *)
(*   - TenantManager                               (tenant_manager.py)     *)
(*                                                                         *)
(* The specifications share the variables:                                 *)
(*   Spec         one GraphClient.request call on a constructed client     *)
(*   FairSpec     Spec with the calling thread kept running                *)
(*   StoreSpec    threads calling InMemoryAuditStore.append / list         *)
(*   ManagerSpec  TenantManager.run_operation calls, each running one      *)
(*                Graph request through a freshly built client, and        *)
(*                with_context and validate_permissions calls made from    *)
(*                outside the manager, one call after the other            *)
(*   RegistrySpec onboard_tenant, offboard_tenant, get_tenant calls of     *)
(*                two threads                                              *)
(*   AuthSpec     one SecretRef.resolve or one acquire_token call          *)
(*                                                                         *)
(* Python values: None of an Optional[str] is the string None below, which *)
(* is none of the modelled strings; an Optional[float] is a record         *)
(* [present, value]; a dict is a function on its keys; a str that float()  *)
(* reads is the sequence of its code points; a float is a double, written  *)
(* [kind, sign, mant, exp2]; the backoff, whole seconds, is an integer.    *)
(* Time stamps of audit events (wall clock) are left out of the events.    *)
(*                                                                         *)
(* A step of a request call runs from the return of one blocking call (the *)
(* token exchange, session.request, time.sleep) to the next one or to the  *)
(* end of the call; what the thread does in between touches the store      *)
(* once at most, under its lock.  A step of a TenantManager method reads   *)
(* or changes the tenant cache once, or records one event; a step of an    *)
(* acquire_token call made on its own ends where the call goes into        *)
(* acquire_token_silent, acquire_token_for_client or get_token.            *)
(***************************************************************************)
EXTENDS Integers, Sequences, FiniteSets, TLC

----------------------------------------------------------------------------
(* Bounds of the model *)

\* largest max_retries a GraphClient is constructed with in Spec
MaxRetries == 3
\* largest capacity an InMemoryAuditStore is constructed with in StoreSpec
MaxCapacity == 3
\* number of append calls in StoreSpec
MaxAppends == 5
\* number of run_operation, with_context and validate_permissions calls in
\* ManagerSpec
MaxOps == 2

\* onboard_tenant, offboard_tenant and get_tenant calls on one manager
MaxRegistryCalls == 3

\* largest max_retries of a client of BackoffSpec: the backoff reaches its
\* cap with the fifth transient response
MaxBackoffRetries == 6

(* Program constants *)

\* graph_client.py:48  backoff = 1.0
InitialBackoff == 1
\* graph_client.py:62  min(backoff * 2, 30)
MaxBackoff == 30
\* graph_client.py:25  max_retries: int = 3
DefaultMaxRetries == 3
\* audit.py:26  max_events: int = 1000
DefaultMaxEvents == 1000

----------------------------------------------------------------------------
(* Python helpers *)

None == "<None>"

\* A str is written as the sequence of its Unicode code points: <<49, 46, 53>>
\* is the text 1.5, <<>> the empty text.

\* what float() makes of a character before it parses: ASCII stays, a space
\* of another script becomes " ", a decimal digit of another script its ASCII
\* digit, anything else "?"
ToAscii(c) ==
  LET \* the characters outside ASCII that str.isspace() takes
      spaces == {133, 160, 5760} \cup (8192..8202)
                  \cup {8232, 8233, 8239, 8287, 12288}
      \* the digit zero of each script with decimal digits (Unicode 14,
      \* category Nd); its nine successors are the digits 1 to 9
      zeros ==
        {48, 1632, 1776, 1984, 2406, 2534, 2662, 2790, 2918, 3046, 3174,
         3302, 3430, 3558, 3664, 3792, 3872, 4160, 4240, 6112, 6160, 6470,
         6608, 6784, 6800, 6992, 7088, 7232, 7248, 42528, 43216, 43264,
         43472, 43504, 43600, 44016, 65296, 66720, 68912, 69734, 69872,
         69942, 70096, 70384, 70736, 70864, 71248, 71360, 71472, 71904,
         72016, 72784, 73040, 73120, 92768, 92864, 93008, 120782, 120792,
         120802, 120812, 120822, 123200, 123632, 125264, 130032}
  IN IF c < 128 THEN c
     ELSE IF c \in spaces THEN 32
     ELSE IF \E zero \in zeros : c \in zero..(zero + 9)
     THEN 48 + c - (CHOOSE zero \in zeros : c \in zero..(zero + 9))
     ELSE 63

\* text without the ASCII whitespace at its ends: \t \n \v \f \r and " "
Strip(text) ==
  LET kept == {i \in 1..Len(text) : text[i] \notin (9..13) \cup {32}}
      first == CHOOSE i \in kept : \A j \in kept : i <= j
      last == CHOOSE i \in kept : \A j \in kept : j <= i
  IN IF kept = {} THEN <<>> ELSE SubSeq(text, first, last)

\* an ASCII digit
IsDigit(c) == c \in 48..57

\* first position of c in text, 0 when absent
IndexOf(text, c) ==
  IF \E i \in 1..Len(text) : text[i] = c
  THEN CHOOSE i \in 1..Len(text) :
         text[i] = c /\ \A j \in 1..(i - 1) : text[j] # c
  ELSE 0

\* one or more digits, single underscores allowed between two digits
IsDigitGroup(text) ==
  /\ text # <<>>
  /\ \A i \in 1..Len(text) :
       \/ IsDigit(text[i])
       \/ /\ text[i] = 95
          /\ 1 < i
          /\ i < Len(text)
          /\ IsDigit(text[i - 1])
          /\ IsDigit(text[i + 1])

\* the digits of a digit group, as numbers, without the leading zeros
DigitsOf(text) ==
  LET kept == SelectSeq(text, IsDigit)
      used == {i \in 1..Len(kept) : kept[i] # 48}
      first == CHOOSE i \in used : \A j \in used : i <= j
  IN IF used = {} THEN <<>>
     ELSE [i \in 1..(Len(kept) - first + 1) |-> kept[first + i - 1] - 48]

\* A whole number of any size is the sequence of its digits in base 1000,
\* the lowest first and the highest not zero: <<>> is 0, <<5, 12>> is 12005.

BigTrim(a) ==
  LET used == {i \in 1..Len(a) : a[i] # 0}
      last == CHOOSE i \in used : \A j \in used : j <= i
  IN IF used = {} THEN <<>> ELSE SubSeq(a, 1, last)

\* the number that decimal digits write, the highest digit first
BigOfDigits(digits) ==
  LET n == Len(digits)
      at(i) == IF i < 1 THEN 0 ELSE digits[i]
  IN BigTrim([j \in 1..((n + 2) \div 3) |->
                at(n - 3 * j + 3) + 10 * at(n - 3 * j + 2)
                  + 100 * at(n - 3 * j + 1)])

\* the number an exponent writes; one of ten digits or more counts as
\* 1100000000
ExponentOf(digits) ==
  LET low == BigOfDigits(digits) \o <<0, 0, 0>>
  IN IF Len(digits) > 9 THEN 1100000000
     ELSE low[1] + 1000 * low[2] + 1000000 * low[3]

\* the digits of a * s + carry and what is carried out of them, for s up to
\* 2^20: the lower half first, then the upper half with its carry
RECURSIVE MulDigits(_, _, _)
MulDigits(a, s, carry) ==
  IF a = <<>> THEN [digits |-> <<>>, carry |-> carry]
  ELSE IF Len(a) = 1
  THEN [digits |-> <<(a[1] * s + carry) % 1000>>,
        carry |-> (a[1] * s + carry) \div 1000]
  ELSE LET half == Len(a) \div 2
           lower == MulDigits(SubSeq(a, 1, half), s, carry)
           upper == MulDigits(SubSeq(a, half + 1, Len(a)), s, lower.carry)
       IN [digits |-> lower.digits \o upper.digits, carry |-> upper.carry]

\* a * s + carry, for s up to 2^20
MulSmall(a, s, carry) ==
  LET low == MulDigits(a, s, carry)
  IN BigTrim(low.digits \o <<low.carry % 1000, (low.carry \div 1000) % 1000,
                             low.carry \div 1000000>>)

\* the digits of (rem * 1000^Len(a) + a) divided by s, the highest first,
\* and what remains, for s up to 2^20: the upper half first, then the lower
\* half with its remainder
RECURSIVE DivDigits(_, _, _)
DivDigits(a, s, rem) ==
  IF a = <<>> THEN [digits |-> <<>>, rem |-> rem]
  ELSE IF Len(a) = 1
  THEN [digits |-> <<(rem * 1000 + a[1]) \div s>>,
        rem |-> (rem * 1000 + a[1]) % s]
  ELSE LET half == Len(a) \div 2
           upper == DivDigits(SubSeq(a, half + 1, Len(a)), s, rem)
           lower == DivDigits(SubSeq(a, 1, half), s, upper.rem)
       IN [digits |-> upper.digits \o lower.digits, rem |-> lower.rem]

\* a divided by s, for s up to 2^20: the quotient and the remainder
DivSmall(a, s) ==
  LET parts == DivDigits(a, s, 0)
  IN [quot |-> BigTrim([i \in 1..Len(a) |-> parts.digits[Len(a) + 1 - i]]),
      rem |-> parts.rem]

\* a * 2^n
RECURSIVE MulPow2(_, _)
MulPow2(a, n) ==
  LET first == MulPow2(a, n \div 2)
  IN IF n <= 20 THEN MulSmall(a, 2^n, 0)
     ELSE IF first = <<>> THEN <<>>
     ELSE MulPow2(first, n - n \div 2)

\* a divided by 2^n, rounded down: the quotient, and whether it is inexact
RECURSIVE DivPow2(_, _)
DivPow2(a, n) ==
  IF a = <<>> THEN [quot |-> <<>>, inexact |-> FALSE]
  ELSE IF n > 20
  THEN LET first == DivPow2(a, n \div 2)
           second == DivPow2(first.quot, n - n \div 2)
       IN [quot |-> second.quot, inexact |-> first.inexact \/ second.inexact]
  ELSE [quot |-> DivSmall(a, 2^n).quot, inexact |-> DivSmall(a, 2^n).rem # 0]

\* the number of binary digits of a
RECURSIVE BitLength(_)
BitLength(a) ==
  IF a = <<>> THEN 0
  ELSE IF Len(a) = 1
  THEN CHOOSE n \in 1..10 : 2^(n - 1) <= a[1] /\ a[1] < 2^n
  ELSE IF Len(a) = 2
  THEN CHOOSE n \in 1..20 :
         2^(n - 1) <= a[1] + 1000 * a[2] /\ a[1] + 1000 * a[2] < 2^n
  ELSE 20 + BitLength(DivSmall(a, 2^20).quot)

\* a < b
BigLess(a, b) ==
  \/ Len(a) < Len(b)
  \/ /\ Len(a) = Len(b)
     /\ \E i \in 1..Len(a) :
          a[i] < b[i] /\ \A j \in (i + 1)..Len(a) : a[j] = b[j]

\* the digits of a + b + carry for a and b of one length, and what is carried
\* out of them
RECURSIVE AddDigits(_, _, _)
AddDigits(a, b, carry) ==
  IF a = <<>> THEN [digits |-> <<>>, carry |-> carry]
  ELSE IF Len(a) = 1
  THEN [digits |-> <<(a[1] + b[1] + carry) % 1000>>,
        carry |-> (a[1] + b[1] + carry) \div 1000]
  ELSE LET half == Len(a) \div 2
           lower == AddDigits(SubSeq(a, 1, half), SubSeq(b, 1, half), carry)
           upper == AddDigits(SubSeq(a, half + 1, Len(a)),
                              SubSeq(b, half + 1, Len(a)), lower.carry)
       IN [digits |-> lower.digits \o upper.digits, carry |-> upper.carry]

\* a + b
BigAdd(a, b) ==
  LET n == IF Len(a) > Len(b) THEN Len(a) ELSE Len(b)
      sum == AddDigits([i \in 1..n |-> IF i > Len(a) THEN 0 ELSE a[i]],
                       [i \in 1..n |-> IF i > Len(b) THEN 0 ELSE b[i]], 0)
  IN BigTrim(sum.digits \o <<sum.carry>>)

\* A float is a double: its sign and the odd whole number mant and the power
\* of two exp2 with  |x| = mant * 2^exp2,  mant below 2^53, exp2 from -1074
\* and |x| below 2^1024; or a zero, an infinity or a NaN.
Zero(sign) == [kind |-> "finite", sign |-> sign, mant |-> <<>>, exp2 |-> 0]

Inf(sign) == [kind |-> "inf", sign |-> sign, mant |-> <<>>, exp2 |-> 0]

NaN == [kind |-> "nan", sign |-> 1, mant |-> <<>>, exp2 |-> 0]

\* sign * a * 2^n as a float, for a of at most 53 binary digits after its
\* trailing zeros
RECURSIVE Double(_, _, _)
Double(sign, a, n) ==
  LET low == DivSmall(a, 2^20).rem
      twos == CHOOSE j \in 0..19 : low % 2^(j + 1) = 2^j
      odd == DivSmall(a, 2^twos).quot
  IN IF a = <<>> THEN Zero(sign)
     ELSE IF low = 0 THEN Double(sign, DivSmall(a, 2^20).quot, n + 20)
     ELSE IF BitLength(odd) + n + twos > 1024 THEN Inf(sign)
     ELSE [kind |-> "finite", sign |-> sign, mant |-> odd, exp2 |-> n + twos]

\* the double nearest to  sign * c * 10^k * 2^p  for c not zero, a tie going
\* to the one whose last binary digit is zero
Nearest(sign, c, k, p) ==
  LET top == c[Len(c)]
      \* c * 10^k is 10^tens at least
      tens == 3 * Len(c) + k
                - (IF top < 10 THEN 3 ELSE IF top < 100 THEN 2 ELSE 1)
      \* 2^e0 is not above |x| and 2^(e0 + 6) is
      e0 == p + (IF tens >= 0 THEN (tens * 3321928) \div 1000000
                 ELSE (tens * 3321929) \div 1000000)
      \* |x| * 2^s has 54 to 59 binary digits, or its last one counts 2^-1075
      s == IF 53 - e0 > 1075 THEN 1075 ELSE 53 - e0
      \* the last step: parts is |x| * 2^s rounded down and divided by 2^cut;
      \* the quotient goes up when the remainder is above the half, or is the
      \* half and the quotient is odd
      Rounded(parts, cut, inexact) ==
        LET odd == parts.quot # <<>> /\ parts.quot[1] % 2 = 1
            up == \/ parts.rem > 2^(cut - 1)
                  \/ parts.rem = 2^(cut - 1) /\ (inexact \/ odd)
        IN Double(sign, IF up THEN MulSmall(parts.quot, 1, 1) ELSE parts.quot,
                  cut - s)
      \* over is the number of binary digits of `whole` beyond 53; those
      \* that count less than 2^-1074 do not fit either
      Cut(whole, over, inexact) ==
        LET cut == IF over > s - 1074 THEN over ELSE s - 1074
        IN Rounded(DivSmall(whole, 2^cut), cut, inexact)
      Fitted(over_two, inexact) ==
        Cut(over_two.quot, BitLength(over_two.quot) - 53,
            inexact \/ over_two.inexact)
      \* the quotients, after the products: by the power of ten, then by the
      \* power of two
      OverTwo(over_ten, inexact) ==
        Fitted(IF p + s < 0 THEN DivPow2(over_ten.quot, -(p + s))
               ELSE [quot |-> over_ten.quot, inexact |-> FALSE],
               inexact \/ over_ten.rem # 0)
      OverTen(by_two) ==
        LET kept == IF k < 0 /\ (-k) \div 3 < Len(by_two)
                    THEN SubSeq(by_two, (-k) \div 3 + 1, Len(by_two))
                    ELSE IF k < 0 THEN <<>> ELSE by_two
        IN OverTwo(IF k < 0 THEN DivSmall(kept, 10^((-k) % 3))
                   ELSE [quot |-> by_two, rem |-> 0],
                   k < 0 /\ \E i \in 1..Len(by_two) :
                              i <= (-k) \div 3 /\ by_two[i] # 0)
      \* the products: by the power of ten, then by the power of two
      ByTwo(by_ten) ==
        OverTen(IF p + s > 0 THEN MulPow2(by_ten, p + s) ELSE by_ten)
  IN ByTwo(IF k > 0
           THEN [i \in 1..(k \div 3) |-> 0] \o MulSmall(c, 10^(k % 3), 0)
           ELSE c)

\* float(n) of a whole number of seconds: 1.0, 2.0, 30.0
Seconds(n) ==
  IF n < 0 THEN Double(-1, MulSmall(<<>>, 1, -n), 0)
  ELSE Double(1, MulSmall(<<>>, 1, n), 0)

\* bool(x) of a float: only 0.0 and -0.0 are false
FloatTruthy(x) == ~(x.kind = "finite" /\ x.mant = <<>>)

\* the float that the decimal digits, the number of them after the point and
\* the written exponent stand for
DecimalValue(sign, digits, fraction_length, written) ==
  \* the parser takes a thousand million digits and no more
  IF Len(digits) > 1000000000 \/ fraction_length > 1000000000
  THEN [ok |-> FALSE, value |-> Zero(1)]
  ELSE IF digits = <<>> THEN [ok |-> TRUE, value |-> Zero(sign)]
  \* 10^309 and more is beyond every double
  ELSE IF Len(digits) + written - fraction_length > 309
  THEN [ok |-> TRUE, value |-> Inf(sign)]
  \* below 10^-324 is less than half the smallest double
  ELSE IF Len(digits) + written - fraction_length < -323
  THEN [ok |-> TRUE, value |-> Zero(sign)]
  ELSE [ok |-> TRUE,
        value |-> Nearest(sign, BigOfDigits(digits),
                          written - fraction_length, 0)]

\* mantissa is digits [. digits], a digit on one side of the point at least;
\* exponent is [sign] digits where has_e
ParseFields(sign, mantissa, has_e, exponent) ==
  LET at_point == IndexOf(mantissa, 46)
      whole == IF at_point = 0 THEN mantissa
               ELSE SubSeq(mantissa, 1, at_point - 1)
      fraction == IF at_point = 0 THEN <<>>
                  ELSE SubSeq(mantissa, at_point + 1, Len(mantissa))
      exp_signed == exponent # <<>> /\ Head(exponent) \in {43, 45}
      exp_sign == IF exp_signed /\ Head(exponent) = 45 THEN -1 ELSE 1
      exp_digits == IF exp_signed THEN Tail(exponent) ELSE exponent
  IN IF /\ whole = <<>> \/ IsDigitGroup(whole)
        /\ fraction = <<>> \/ IsDigitGroup(fraction)
        /\ whole # <<>> \/ fraction # <<>>
        /\ ~has_e \/ IsDigitGroup(exp_digits)
     THEN DecimalValue(sign, DigitsOf(whole \o fraction),
                       Len(SelectSeq(fraction, IsDigit)),
                       IF has_e THEN exp_sign * ExponentOf(DigitsOf(exp_digits))
                       ELSE 0)
     ELSE [ok |-> FALSE, value |-> Zero(1)]

\* digits [. digits] [e [sign] digits] in ASCII
ParseDecimal(sign, text) ==
  LET at_e == IndexOf(text, 101)
  IN ParseFields(sign,
                 IF at_e = 0 THEN text ELSE SubSeq(text, 1, at_e - 1),
                 at_e # 0,
                 IF at_e = 0 THEN <<>> ELSE SubSeq(text, at_e + 1, Len(text)))

\* ASCII letters in lower case
Lower(text) ==
  [i \in 1..Len(text) |-> IF text[i] \in 65..90 THEN text[i] + 32 ELSE text[i]]

\* [sign] inf, infinity, nan or a decimal, in ASCII without capitals
ParseSigned(text) ==
  LET signed == text # <<>> /\ Head(text) \in {43, 45}
      sign == IF signed /\ Head(text) = 45 THEN -1 ELSE 1
      rest == IF signed THEN Tail(text) ELSE text
  IN IF rest \in {<<105, 110, 102>>,
                  <<105, 110, 102, 105, 110, 105, 116, 121>>}
     THEN [ok |-> TRUE, value |-> Inf(sign)]
     ELSE IF rest = <<110, 97, 110>> THEN [ok |-> TRUE, value |-> NaN]
     ELSE ParseDecimal(sign, rest)

\* float(text) of a str: ok is FALSE where float raises ValueError
ParseFloat(text) ==
  ParseSigned(Lower(Strip([i \in 1..Len(text) |-> ToAscii(text[i])])))

\* an Optional[float]
NoneFloat == [present |-> FALSE, value |-> Zero(1)]

SomeFloat(x) == [present |-> TRUE, value |-> x]

\* an Optional[str]: what headers.get(name) gives
NoHeader == [present |-> FALSE, text |-> <<>>]

Header(text) == [present |-> TRUE, text |-> text]

EmptyDict == [k \in {} |-> None]

\* dict.update
\* headers = self._auth_header(scopes): the headers of the caller are left out
DictReplace(d, u) == u

\* d.update(u)
DictUpdate(d, u) ==
  [k \in (DOMAIN d) \cup (DOMAIN u) |-> IF k \in DOMAIN u THEN u[k] ELSE d[k]]

\* kwargs.get(key)
KwGet(kwargs, key) == IF key \in DOMAIN kwargs THEN kwargs[key] ELSE None

Min(a, b) == IF a <= b THEN a ELSE b

Max(a, b) == IF a >= b THEN a ELSE b

\* seq[:n] for n >= 0
Take(seq, n) == SubSeq(seq, 1, Min(n, Len(seq)))

\* seq[:limit], negative limits counting from the end as Python slices do
PySlicePrefix(seq, limit) ==
  IF limit >= 0 THEN Take(seq, limit) ELSE Take(seq, Max(Len(seq) + limit, 0))

Reverse(seq) == [i \in 1..Len(seq) |-> seq[Len(seq) + 1 - i]]

----------------------------------------------------------------------------
VARIABLES
  \* InMemoryAuditStore
  max_events,    \* maxlen of the deque
  events,        \* self._events, leftmost first
  lock,          \* self._lock: the thread holding it, or None
  tpc,           \* per thread: where it is in append / list
  targ,          \* per thread: the event passed to append
  list_limit,    \* per thread: the limit passed to list
  list_result,   \* per thread: what its last list call returned
  snap,          \* per thread: how many events had been appended when list read
  appended,      \* every event appended to the store, in append order
  next_event,    \* number of the next event a thread will append
  iter_events,   \* per reader: the deque as it was when list began to copy it
  \* JsonAuditLogger
  log,           \* every event built by _log, in order
  \* GraphClient and one request call
  tenant_config, \* self.tenant_config
  max_retries,   \* self.max_retries
  pc,            \* "none" (no client), "idle", "token", "loop", "sent",
                 \* "sleeping", "returned", "raised"
  url,           \* url of the call
  caller_headers,\* the headers keyword the caller passed
  headers,       \* headers dict sent with every attempt
  attempt,       \* loop variable
  backoff,       \* backoff
  sent,          \* HTTP attempts issued by session.request
  responses,     \* responses received
  sleeps,        \* arguments of the time.sleep calls that waited
  token_calls,   \* number of acquire_token calls of this request
  result,        \* how the call ended
  \* TenantManager
  tenant_cache,  \* self._tenant_cache
  op_pc,         \* "idle", "validating", "starting", "in_operation"
  operation,     \* the operation closure passed to run_operation
  correlation_id,\* local correlation_id of the running run_operation
  uuid_count,    \* number of uuid.uuid4() calls so far
  calls,         \* one record per run_operation call
  context_tenant,\* local tenant of the running with_context
  context_calls, \* one record per with_context or validate_permissions call
                 \* made from outside the manager
  registry_calls,\* one record per onboard_tenant, offboard_tenant, get_tenant call
  \* SecretRef.resolve and GraphAuthenticator.acquire_token called on their own
  auth           \* the inputs of the call, where it is (pc: "resolve",
                 \* "resolved", "acquire_token", "silent", "for_client",
                 \* "get_token", "acquired") and, once it ended, its outcome

threadVars == <<lock, tpc, targ, list_limit, list_result, snap, appended, next_event,
               iter_events>>

requestVars == <<tenant_config, max_retries, pc, url, caller_headers, headers,
                 attempt, backoff, sent, responses, sleeps, token_calls, result>>

managerVars == <<tenant_cache, op_pc, operation, correlation_id, uuid_count, calls,
                 context_tenant, context_calls, registry_calls>>

authVars == <<auth>>

vars == <<max_events, events, lock, tpc, targ, list_limit, list_result,
          snap, appended, next_event, iter_events, log,
          tenant_config, max_retries, pc, url, caller_headers, headers, attempt,
          backoff, sent, responses, sleeps, token_calls, result,
          tenant_cache, op_pc, operation, correlation_id, uuid_count, calls,
          context_tenant, context_calls, registry_calls, auth>>

----------------------------------------------------------------------------
(* audit.py *)

\* JsonAuditLogger._build_event (without the time stamp)
BuildEvent(level, message, kwargs) ==
  [level |-> level,
   message |-> message,
   tenant_id |-> KwGet(kwargs, "tenant_id"),
   correlation_id |-> KwGet(kwargs, "correlation_id"),
   extra |-> [k \in (DOMAIN kwargs) \ {"tenant_id", "correlation_id"} |-> kwargs[k]]]

\* deque.appendleft without maxlen: the buffer grows without bound
AppendLeftUnbounded(dq, event, maxlen) == <<event>> \o dq

\* deque.append: newest at the right, evicting the leftmost
AppendRight(dq, event, maxlen) ==
  IF maxlen = 0 THEN <<>>
  ELSE IF Len(dq) >= maxlen THEN Append(Tail(dq), event)
  ELSE Append(dq, event)

\* deque(maxlen=max_events).appendleft(event): a full deque drops its rightmost
AppendLeft(dq, event, maxlen) ==
  IF maxlen = 0 THEN <<>> ELSE Take(<<event>> \o dq, maxlen)

\* InMemoryAuditStore.list body: list(self._events)[:limit]
ListEvents(dq, limit) == PySlicePrefix(dq, limit)

RECURSIVE AppendLeftAll(_, _, _)
AppendLeftAll(dq, evs, maxlen) ==
  IF evs = <<>> THEN dq
  ELSE AppendLeftAll(AppendLeft(dq, Head(evs), maxlen), Tail(evs), maxlen)

\* JsonAuditLogger._log for each of evs in turn, made by a single thread:
\* store.append(event) and logger.log
Emit(evs) ==
  /\ log' = log \o evs
  /\ events' = AppendLeftAll(events, evs, max_events)

Info(message, kwargs) == BuildEvent("INFO", message, kwargs)

Warning(message, kwargs) == BuildEvent("WARNING", message, kwargs)

Error(message, kwargs) == BuildEvent("ERROR", message, kwargs)

----------------------------------------------------------------------------
(* config.py, auth.py *)

\* truth value of an Optional[str]
Truthy(text) == text # None /\ text # ""

\* a SecretRef, config.py:20-30
SecretRef(env, value, key_vault_secret_uri) ==
  [env |-> env, value |-> value, key_vault_secret_uri |-> key_vault_secret_uri]

\* an Optional[SecretRef], config.py:65
NoSecretRef == [present |-> FALSE]

SomeSecretRef(ref) == [present |-> TRUE, ref |-> ref]

\* os.getenv(name)
Getenv(environ, name) == IF name \in DOMAIN environ THEN environ[name] ELSE None

ValueError(message) == [kind |-> "raise", type |-> "ValueError", message |-> message]

RuntimeError(message) == [kind |-> "raise", type |-> "RuntimeError", message |-> message]

\* resolve that looks at key_vault_secret_uri before value
ResolveKeyVaultFirst(ref, environ) ==
  IF Truthy(ref.env)
  THEN IF Truthy(Getenv(environ, ref.env))
       THEN [kind |-> "return", value |-> Getenv(environ, ref.env)]
       ELSE ValueError("Environment variable is not set")
  ELSE IF Truthy(ref.key_vault_secret_uri)
  THEN ValueError("Key Vault secret resolution is not implemented")
  ELSE IF Truthy(ref.value)
  THEN [kind |-> "return", value |-> ref.value]
  ELSE ValueError("No secret reference provided for resolution")

\* resolve that returns os.getenv(self.env, "") as it is
ResolveGetenvDefault(ref, environ) ==
  IF Truthy(ref.env)
  THEN [kind |-> "return",
        value |-> IF ref.env \in DOMAIN environ THEN environ[ref.env] ELSE ""]
  ELSE IF Truthy(ref.value)
  THEN [kind |-> "return", value |-> ref.value]
  ELSE IF Truthy(ref.key_vault_secret_uri)
  THEN ValueError("Key Vault secret resolution is not implemented")
  ELSE ValueError("No secret reference provided for resolution")

\* config.py:34-47  SecretRef.resolve
Resolve(ref, environ) ==
  IF Truthy(ref.env)
  THEN IF Truthy(Getenv(environ, ref.env))
       THEN [kind |-> "return", value |-> Getenv(environ, ref.env)]
       ELSE ValueError("Environment variable is not set")
  ELSE IF Truthy(ref.value)
  THEN [kind |-> "return", value |-> ref.value]
  ELSE IF Truthy(ref.key_vault_secret_uri)
  THEN ValueError("Key Vault secret resolution is not implemented")
  ELSE ValueError("No secret reference provided for resolution")

TenantT1 ==
  [tenant_id |-> "t1", display_name |-> "Tenant One",
   auth |-> [type |-> "client_secret", client_id |-> "app-1",
             client_secret |-> SecretRef(None, "inline", None)],
   graph_base_url |-> "https://graph.microsoft.com"]

TenantT2 ==
  [tenant_id |-> "t2", display_name |-> None,
   auth |-> [type |-> "managed_identity", client_id |-> None],
   graph_base_url |-> "https://graph.microsoft.com"]

TenantConfigs == {TenantT1, TenantT2}

\* another configuration of tenant t1
TenantT1b ==
  [tenant_id |-> "t1", display_name |-> "Tenant One, renamed",
   auth |-> [type |-> "managed_identity", client_id |-> None],
   graph_base_url |-> "https://graph.microsoft.com"]

\* an Optional[dict]: what acquire_token_silent and acquire_token_for_client
\* return
NoneDict == [present |-> FALSE, value |-> EmptyDict]

SomeDict(dict) == [present |-> TRUE, value |-> dict]

\* `not result` of an Optional[dict]
FalsyDict(dict) == ~dict.present \/ DOMAIN dict.value = {}

\* what is outside the process when acquire_token runs: the environment
\* variables, whether the certificate file can be read, what MSAL's two
\* calls return, and how ManagedIdentityCredential.get_token ends
World(environ, cert_readable, silent, for_client, get_token) ==
  [environ |-> environ, cert_readable |-> cert_readable, silent |-> silent,
   for_client |-> for_client, get_token |-> get_token]

\* the token endpoint grants a token
WorldGranted ==
  World(EmptyDict, TRUE, NoneDict, SomeDict([access_token |-> "tok"]),
        [kind |-> "return", token |-> "tok"])

\* the token endpoint refuses
WorldRefused ==
  World(EmptyDict, TRUE, NoneDict, SomeDict([error |-> "invalid_client"]),
        [kind |-> "raise", type |-> "CredentialUnavailableError"])

\* the worlds of the Graph requests of Spec and ManagerSpec
ExchangeResults == {WorldGranted, WorldRefused}

\* GraphAuthenticator._extract_token
ExtractToken(exchanged) ==
  IF FalsyDict(exchanged) \/ "access_token" \notin DOMAIN exchanged.value
  THEN RuntimeError("Token acquisition failed")
  ELSE [kind |-> "return", token |-> exchanged.value["access_token"]]

\* auth.py:40-42 and 60-62: acquire_token_silent, then acquire_token_for_client
\* when it gave nothing
SilentOrForClient(world) ==
  IF FalsyDict(world.silent) THEN world.for_client ELSE world.silent

\* GraphAuthenticator._load_certificate: how it ends
LoadCertificate(auth_config, world) ==
  LET password == IF auth_config.certificate_password.present
                  THEN Resolve(auth_config.certificate_password.ref, world.environ)
                  ELSE [kind |-> "return", value |-> None]
  IN IF password.kind = "raise" THEN password
     ELSE IF ~world.cert_readable
     THEN RuntimeError("Failed to read certificate")
     ELSE [kind |-> "return", passphrase |-> password.value]

\* the acquired_app_token event of auth.py:44-48, 64-68, 73-77
AcquiredAppToken(tenant, auth_type) ==
  Info("acquired_app_token", [tenant_id |-> tenant.tenant_id, auth_type |-> auth_type])

\* acquire_token that records acquired_app_token before it looks at the
\* result of the exchange
AcquireTokenLogsFirst(tenant, world) ==
  LET auth_config == tenant.auth
      logged == <<AcquiredAppToken(tenant, auth_config.type)>>
  IN IF auth_config.type = "client_secret"
     THEN IF Resolve(auth_config.client_secret, world.environ).kind = "raise"
          THEN [outcome |-> Resolve(auth_config.client_secret, world.environ),
                events |-> <<>>]
          ELSE [outcome |-> ExtractToken(SilentOrForClient(world)), events |-> logged]
     ELSE IF auth_config.type = "certificate"
     THEN IF LoadCertificate(auth_config, world).kind = "raise"
          THEN [outcome |-> LoadCertificate(auth_config, world), events |-> <<>>]
          ELSE [outcome |-> ExtractToken(SilentOrForClient(world)), events |-> logged]
     ELSE IF auth_config.type = "managed_identity"
     THEN [outcome |-> world.get_token, events |-> logged]
     ELSE [outcome |-> ValueError("Unsupported authentication configuration"),
           events |-> <<>>]

\* auth.py:30-81  GraphAuthenticator.acquire_token: the outcome and the
\* events it records
AcquireToken(tenant, world) ==
  LET auth_config == tenant.auth
      logged == <<AcquiredAppToken(tenant, auth_config.type)>>
      extracted == ExtractToken(SilentOrForClient(world))
  IN IF auth_config.type = "client_secret"
     THEN IF Resolve(auth_config.client_secret, world.environ).kind = "raise"
          THEN [outcome |-> Resolve(auth_config.client_secret, world.environ),
                events |-> <<>>]
          ELSE [outcome |-> extracted,
                events |-> IF extracted.kind = "return" THEN logged ELSE <<>>]
     ELSE IF auth_config.type = "certificate"
     THEN IF LoadCertificate(auth_config, world).kind = "raise"
          THEN [outcome |-> LoadCertificate(auth_config, world), events |-> <<>>]
          ELSE [outcome |-> extracted,
                events |-> IF extracted.kind = "return" THEN logged ELSE <<>>]
     ELSE IF auth_config.type = "managed_identity"
     THEN [outcome |-> world.get_token,
           events |-> IF world.get_token.kind = "return" THEN logged ELSE <<>>]
     ELSE [outcome |-> ValueError("Unsupported authentication configuration"),
           events |-> <<>>]

----------------------------------------------------------------------------
(* graph_client.py *)

\* the status codes the server answers with
Statuses == {200, 404, 500, 429, 503, 504}

\* the HTTP date  Wed, 21 Oct 2015 07:28:00 GMT
HttpDate ==
  Header(
    <<87, 101, 100, 44, 32, 50, 49, 32, 79, 99, 116, 32, 50, 48, 49, 53, 32,
      48, 55, 58, 50, 56, 58, 48, 48, 32, 71, 77, 84>>)

\* Retry-After header values: absent, delay seconds written as 0, 2, -1 and
\* 9200000000, an HTTP date
RetryAfterHeaders ==
  {NoHeader, Header(<<48>>), Header(<<50>>), Header(<<45, 49>>),
   Header(<<57, 50, 48, 48, 48, 48, 48, 48, 48, 48>>), HttpDate}

\* the Python value of a JSON document: a dict for an object, a list for an
\* array
JsonObject(members) == [type |-> "dict", members |-> members]

JsonArray(items) == [type |-> "list", items |-> items]

\* how response.json() ends: the value decoded, or JSONDecodeError
JsonError == [kind |-> "raise", type |-> "JSONDecodeError"]

JsonValue(value) == [kind |-> "return", value |-> value]

\* the body of a response: its text and how json() ends on it
Body(text, json) == [text |-> text, json |-> json]

\* a body that is no JSON document
PlainBody == Body("body", JsonError)

\* the body  []
ArrayBody == Body("[]", JsonValue(JsonArray(<<>>)))

\* the body  {"value": [{"id": "u1"}]}
UsersBody ==
  Body("{\"value\": [{\"id\": \"u1\"}]}",
       JsonValue(JsonObject([value |-> JsonArray(<<JsonObject([id |-> "u1"])>>)])))

ResponseOf(status, retry_after, body) ==
  [status_code |-> status, retry_after |-> retry_after,
   text |-> body.text, json |-> body.json]

Response(status, retry_after) == ResponseOf(status, retry_after, PlainBody)

TransientOnly503And504 == {503, 504}

\* graph_client.py:52  response.status_code in (429, 503, 504)
TransientStatuses == {429, 503, 504}

\* the responses the server may give to one attempt; only a transient
\* response has its Retry-After header read.  A 429 comes with every header
\* value, any other status without the header
Responses ==
  {Response(s, NoHeader) : s \in Statuses \ {429}}
    \cup {Response(429, h) : h \in RetryAfterHeaders}

\* graph_client.py:89-92  the float, None where float() raised ValueError
FloatOrNone(parsed) ==
  IF parsed.ok THEN SomeFloat(parsed.value) ELSE NoneFloat

\* GraphClient._get_retry_after_seconds
GetRetryAfterSeconds(response) ==
  IF ~response.retry_after.present THEN NoneFloat
  ELSE FloatOrNone(ParseFloat(response.retry_after.text))

\* graph_client.py:53  retry_after = <Optional[float]> or backoff
RetryAfterOrBackoff(opt, current) ==
  IF opt.present /\ FloatTruthy(opt.value) THEN opt.value ELSE Seconds(current)

\* the readings of the monotonic clock when time.sleep is called, in
\* nanoseconds: a machine up for a second, for a day, for a hundred years.
\* How the call ends changes once as the reading grows, so the readings in
\* between end it as one of these does; no machine is taken to be up longer.
MonotonicClocks ==
  {<<0, 0, 0, 1>>, <<0, 0, 0, 400, 86>>, <<0, 0, 0, 0, 600, 153, 3>>}

\* how time.sleep(seconds) ends when seconds * 1e9 is the double `product`
\* and the monotonic clock reads `clock` nanoseconds.  The product is rounded
\* away from zero to a whole number, which must be -2^63 at least and less
\* than 2^63; then the sign is checked; then the kernel is asked to wait until
\* clock + nanoseconds, which it refuses from 2^63 on.
SleepNanoseconds(seconds, product, clock) ==
  LET two63 == <<808, 775, 854, 36, 372, 223, 9>>
      whole == IF product.mant = <<>> THEN <<>>
               ELSE IF product.exp2 >= 0
               THEN MulPow2(product.mant, product.exp2)
               ELSE MulSmall(DivPow2(product.mant, -product.exp2).quot, 1, 1)
  IN IF seconds.kind = "nan"
     THEN ValueError("Invalid value NaN (not a number)")
     ELSE IF \/ product.kind = "inf"
             \/ product.sign = 1 /\ ~BigLess(whole, two63)
             \/ product.sign = -1 /\ BigLess(two63, whole)
     THEN [kind |-> "raise", type |-> "OverflowError",
           message |-> "timestamp out of range for platform time_t"]
     ELSE IF seconds.sign = -1 /\ whole # <<>>
     THEN ValueError("sleep length must be non-negative")
     ELSE IF ~BigLess(BigAdd(clock, whole), two63)
     THEN [kind |-> "raise", type |-> "OSError",
           message |-> "[Errno 22] Invalid argument"]
     ELSE [kind |-> "return"]

\* time.sleep(seconds) called when the monotonic clock reads `clock`
\* nanoseconds
TimeSleep(seconds, clock) ==
  SleepNanoseconds(seconds,
                   IF seconds.mant = <<>> THEN seconds
                   ELSE Nearest(seconds.sign, seconds.mant, 9, seconds.exp2),
                   clock)

BackoffNotDoubled(current) == current

\* backoff = backoff * 2, without the cap
BackoffUncapped(current) == current * 2

\* graph_client.py:62
NextBackoff(current) == Min(current * 2, MaxBackoff)

RaiseForStatusOnly4xx(status) == status >= 400 /\ status < 500

\* httpx.Response.raise_for_status raises HTTPStatusError unless 2xx
RaiseForStatus(status) == ~(status >= 200 /\ status < 300)

\* graph_client.py:83, reached when the loop ends after `response`
RetryExhausted(response) ==
  [kind |-> "raise", type |-> "RuntimeError",
   message |-> "Maximum retry attempts exceeded for Graph request"]

NoResult == [kind |-> "none"]

InRangeOneMore(n, retries) == n < retries + 3

\* graph_client.py:50  n in range(1, self.max_retries + 2), for n >= 1
InRange(n, retries) == n < retries + 2

PcOf(outcome) == IF outcome.kind = "return" THEN "returned" ELSE "raised"

\* a request that catches the error of the token acquisition, records
\* graph_request_failed and raises an error of its own
TokenErrorCaught(tenant, error) ==
  [result |-> RuntimeError("Graph request failed"),
   events |-> <<Error("graph_request_failed", [tenant_id |-> tenant.tenant_id])>>]

\* graph_client.py:47  no handler around self._auth_header(scopes): its
\* error leaves request as it is and request records nothing
TokenErrorPropagated(tenant, error) == [result |-> error, events |-> <<>>]

\* GraphClient.request, lines 45-47: the keyword arguments are read and
\* acquire_token is called; the call waits in the token exchange
RequestStart(u, caller_headers_arg) ==
  /\ pc = "idle"
  /\ url' = u
  /\ caller_headers' = caller_headers_arg
  /\ token_calls' = token_calls + 1
  /\ pc' = "token"
  /\ UNCHANGED <<max_events, events, log, threadVars, tenant_config,
                 max_retries, headers, attempt, backoff, sent, responses,
                 sleeps, result, managerVars, authVars>>

\* GraphClient.request, lines 47-50: the token exchange ends; acquire_token
\* records its event and returns, or raises; the headers, the backoff, the
\* loop entry
RequestToken ==
  \E exchange \in ExchangeResults :
    LET acq == AcquireToken(tenant_config, exchange)
    IN /\ pc = "token"
       /\ IF acq.outcome.kind = "raise"
          THEN /\ Emit(acq.events
                       \o TokenErrorPropagated(tenant_config, acq.outcome).events)
               /\ pc' = "raised"
               /\ result' = TokenErrorPropagated(tenant_config, acq.outcome).result
               /\ UNCHANGED <<headers, attempt, backoff>>
          ELSE /\ Emit(acq.events)
               /\ headers' = DictUpdate(caller_headers,
                                [Authorization |-> "Bearer " \o acq.outcome.token])
               /\ backoff' = InitialBackoff
               /\ attempt' = 1
               /\ IF InRange(1, max_retries)
                  THEN pc' = "loop" /\ result' = result
                  ELSE pc' = "raised" /\ result' = RetryExhausted(Response(0, NoHeader))
       /\ UNCHANGED <<max_events, threadVars, tenant_config, max_retries, url,
                      caller_headers, token_calls, sent, responses, sleeps,
                      managerVars, authVars>>

\* GraphClient.request, line 51: session.request is called and waits for the
\* server
AttemptSend ==
  /\ pc = "loop"
  /\ sent' = Append(sent, [attempt |-> attempt, url |-> url, headers |-> headers])
  /\ pc' = "sent"
  /\ UNCHANGED <<max_events, events, log, threadVars, tenant_config,
                 max_retries, url, caller_headers, headers, attempt, backoff,
                 responses, sleeps, token_calls, result, managerVars, authVars>>

\* GraphClient.request, lines 51-61 and 65-81: session.request returns
\* `response`; a transient one is recorded and time.sleep is called, which
\* raises at once or begins to wait; any other response ends the call
Attempt(response) ==
  /\ pc = "sent"
  /\ responses' = Append(responses, response)
  /\ IF response.status_code \in TransientStatuses
     THEN \E retry_after \in
               {RetryAfterOrBackoff(GetRetryAfterSeconds(response), backoff)} :
            \E clock \in MonotonicClocks :
              \E slept \in {TimeSleep(retry_after, clock)} :
                /\ Emit(<<Warning("graph_throttled",
                                  [tenant_id |-> tenant_config.tenant_id,
                                   status |-> response.status_code,
                                   retry_after |-> retry_after,
                                   attempt |-> attempt])>>)
                /\ IF slept.kind = "raise"
                   THEN /\ pc' = "raised"
                        /\ result' = slept
                        /\ sleeps' = sleeps
                   ELSE /\ pc' = "sleeping"
                        /\ result' = result
                        /\ sleeps' = Append(sleeps, retry_after)
     ELSE LET failed == Error("graph_request_failed",
                              [tenant_id |-> tenant_config.tenant_id,
                               status |-> response.status_code,
                               url |-> url,
                               body |-> response.text])
              succeeded == Info("graph_request_succeeded",
                                [tenant_id |-> tenant_config.tenant_id,
                                 status |-> response.status_code,
                                 url |-> url])
          IN /\ sleeps' = sleeps
             /\ IF response.status_code >= 400
                THEN IF RaiseForStatus(response.status_code)
                     THEN /\ Emit(<<failed>>)
                          /\ pc' = "raised"
                          /\ result' = [kind |-> "raise", type |-> "HTTPStatusError",
                                        status_code |-> response.status_code,
                                        body |-> response.text]
                     ELSE /\ Emit(<<failed, succeeded>>)
                          /\ pc' = "returned"
                          /\ result' = [kind |-> "return",
                                        status_code |-> response.status_code]
                ELSE /\ Emit(<<succeeded>>)
                     /\ pc' = "returned"
                     /\ result' = [kind |-> "return",
                                   status_code |-> response.status_code]
  /\ UNCHANGED <<max_events, threadVars, tenant_config, max_retries, url,
                 caller_headers, headers, attempt, backoff, sent,
                 token_calls, managerVars, authVars>>

\* GraphClient.request, lines 61-63, 50 and 83: time.sleep returns; the
\* backoff is doubled and the loop goes on or is over
AttemptSleep ==
  /\ pc = "sleeping"
  /\ backoff' = NextBackoff(backoff)
  /\ IF InRange(attempt + 1, max_retries)
     THEN /\ attempt' = attempt + 1
          /\ pc' = "loop"
          /\ result' = result
     ELSE /\ attempt' = attempt
          /\ result' = RetryExhausted(responses[Len(responses)])
          /\ pc' = PcOf(RetryExhausted(responses[Len(responses)]))
  /\ UNCHANGED <<max_events, events, log, threadVars, tenant_config,
                 max_retries, url, caller_headers, headers, sent, responses,
                 sleeps, token_calls, managerVars, authVars>>

\* the urls of TenantOperations.list_users and create_security_group
UsersUrl == "https://graph.microsoft.com/v1.0/users?$top=10"

GroupsUrl == "https://graph.microsoft.com/v1.0/groups"

\* headers keyword of the caller: kwargs.pop("headers", {})
CallerHeaders ==
  {EmptyDict,
   [k \in {"X-Request-Id", "Authorization"} |->
      IF k = "X-Request-Id" THEN "r1" ELSE "Basic abc"]}

----------------------------------------------------------------------------
(* Spec: one GraphClient.request call *)

\* threads appending to the store (operation threads) and threads listing
\* it (the reporting thread)
Writers == {"w1", "w2"}

Readers == {"r1"}

Threads == Writers \cup Readers

InitStoreIdle ==
  /\ lock = None
  /\ tpc = [t \in Threads |-> "idle"]
  /\ targ = [t \in Writers |-> None]
  /\ list_limit = [t \in Readers |-> 0]
  /\ list_result = [t \in Readers |-> <<>>]
  /\ snap = [t \in Readers |-> -1]
  /\ appended = <<>>
  /\ next_event = 1
  /\ iter_events = [t \in Readers |-> <<>>]

InitRequestIdle ==
  /\ url = None
  /\ caller_headers = EmptyDict
  /\ headers = EmptyDict
  /\ attempt = 0
  /\ backoff = 0
  /\ sent = <<>>
  /\ responses = <<>>
  /\ sleeps = <<>>
  /\ token_calls = 0
  /\ result = NoResult

\* no call of SecretRef.resolve or acquire_token on its own
NoAuthCall == [pc |-> "none"]

InitAuthIdle == auth = NoAuthCall

InitManagerIdle ==
  /\ tenant_cache = [id \in {"t1"} |-> TenantT1]
  /\ op_pc = "idle"
  /\ operation = None
  /\ correlation_id = None
  /\ uuid_count = 0
  /\ calls = <<>>
  /\ context_tenant = None
  /\ context_calls = <<>>
  /\ registry_calls = <<>>

\* a client constructed for some tenant with some max_retries, logging to a
\* logger with a default store
Init ==
  /\ max_events = DefaultMaxEvents
  /\ events = <<>>
  /\ log = <<>>
  /\ InitStoreIdle
  /\ tenant_config \in TenantConfigs
  /\ max_retries \in 0..MaxRetries
  /\ pc = "idle"
  /\ InitRequestIdle
  /\ InitManagerIdle
  /\ InitAuthIdle

Request == \E h \in CallerHeaders : RequestStart(UsersUrl, h)

RequestAttempt == \E r \in Responses : Attempt(r)

Next ==
  \/ Request
  \/ RequestToken
  \/ AttemptSend
  \/ RequestAttempt
  \/ AttemptSleep

Spec == Init /\ [][Next]_vars

\* the calling thread keeps running: request is a synchronous call whose
\* every step (token, HTTP attempt, sleep) returns
FairSpec == Spec /\ WF_vars(Next)

----------------------------------------------------------------------------
(* BackoffSpec: one GraphClient.request call of a client with many retries *)

\* the responses of BackoffSpec: throttled without Retry-After and with
\* Retry-After: 1.5, ok
BackoffResponses ==
  {Response(429, NoHeader), Response(503, Header(<<49, 46, 53>>)),
   Response(200, NoHeader)}

BackoffInit ==
  /\ max_events = DefaultMaxEvents
  /\ events = <<>>
  /\ log = <<>>
  /\ InitStoreIdle
  /\ tenant_config = TenantT1
  /\ max_retries \in 0..MaxBackoffRetries
  /\ pc = "idle"
  /\ InitRequestIdle
  /\ InitManagerIdle
  /\ InitAuthIdle

BackoffRequest == RequestStart(UsersUrl, EmptyDict)

BackoffAttempt == \E r \in BackoffResponses : Attempt(r)

BackoffNext ==
  \/ BackoffRequest
  \/ RequestToken
  \/ AttemptSend
  \/ BackoffAttempt
  \/ AttemptSleep

BackoffSpec == BackoffInit /\ [][BackoffNext]_vars

----------------------------------------------------------------------------
(* StoreSpec: threads calling InMemoryAuditStore.append and list *)

\* the n-th event a thread builds and passes to append
E(n) == Info("event", [seq |-> n])

\* limit arguments of list; webapp.py passes any int of the query string
Limits == {-1, 0, 2, 10}

StoreInit ==
  /\ max_events \in 0..MaxCapacity
  /\ events = <<>>
  /\ log = <<>>
  /\ InitStoreIdle
  /\ tenant_config = TenantT1
  /\ max_retries = DefaultMaxRetries
  /\ pc = "none"
  /\ InitRequestIdle
  /\ InitManagerIdle
  /\ InitAuthIdle

\* a thread calls append(event) and waits for the lock
AppendCall(t) ==
  /\ tpc[t] = "idle"
  /\ next_event <= MaxAppends
  /\ targ' = [targ EXCEPT ![t] = E(next_event)]
  /\ next_event' = next_event + 1
  /\ tpc' = [tpc EXCEPT ![t] = "append_wait"]
  /\ UNCHANGED <<max_events, events, lock, list_limit, list_result, snap, appended,
                 iter_events>>

\* a thread calls list(limit) and waits for the lock
ListCall(t, limit) ==
  /\ tpc[t] = "idle"
  /\ list_limit' = [list_limit EXCEPT ![t] = limit]
  /\ tpc' = [tpc EXCEPT ![t] = "list_wait"]
  /\ UNCHANGED <<max_events, events, lock, targ, list_result, snap, appended, next_event,
                 iter_events>>

\* a store without the lock: a thread never waits
LockAlwaysFree(holder) == TRUE

\* threading.Lock: acquire goes through when no thread holds the lock
LockFree(holder) == holder = None

\* `with self._lock:` entered
LockAcquire(t) ==
  /\ tpc[t] \in {"append_wait", "list_wait"}
  /\ LockFree(lock)
  /\ lock' = t
  /\ tpc' = [tpc EXCEPT ![t] = IF tpc[t] = "append_wait" THEN "append_locked"
                                                       ELSE "list_entered"]
  /\ UNCHANGED <<max_events, events, targ, list_limit, list_result, snap,
                 appended, next_event, iter_events>>

\* InMemoryAuditStore.append: the body and the release of the lock
AppendBody(t) ==
  /\ tpc[t] = "append_locked"
  /\ events' = AppendLeft(events, targ[t], max_events)
  /\ appended' = Append(appended, targ[t])
  /\ lock' = None
  /\ tpc' = [tpc EXCEPT ![t] = "idle"]
  /\ UNCHANGED <<max_events, targ, list_limit, list_result, snap, next_event,
                 iter_events>>

\* InMemoryAuditStore.list: list(self._events) starts to iterate the deque
ListIterate(t) ==
  /\ tpc[t] = "list_entered"
  /\ iter_events' = [iter_events EXCEPT ![t] = events]
  /\ tpc' = [tpc EXCEPT ![t] = "list_locked"]
  /\ UNCHANGED <<max_events, events, lock, targ, list_limit, list_result, snap,
                 appended, next_event>>

\* snap of a list call that ended with RuntimeError: deque mutated during
\* iteration
ListFailed == -2

\* InMemoryAuditStore.list: the copy is complete, the slice is returned and
\* the lock released; a deque that changed while it was iterated raises
ListBody(t) ==
  /\ tpc[t] = "list_locked"
  /\ IF events = iter_events[t]
     THEN /\ list_result' = [list_result EXCEPT ![t] = ListEvents(events, list_limit[t])]
          /\ snap' = [snap EXCEPT ![t] = Len(appended)]
     ELSE /\ list_result' = [list_result EXCEPT ![t] = <<>>]
          /\ snap' = [snap EXCEPT ![t] = ListFailed]
  /\ lock' = None
  /\ tpc' = [tpc EXCEPT ![t] = "idle"]
  /\ UNCHANGED <<max_events, events, targ, list_limit, appended, next_event,
                 iter_events>>

StoreAppendCall ==
  /\ \E t \in Writers : AppendCall(t)
  /\ UNCHANGED <<log, requestVars, managerVars, authVars>>

StoreListCall ==
  /\ \E t \in Readers, limit \in Limits : ListCall(t, limit)
  /\ UNCHANGED <<log, requestVars, managerVars, authVars>>

StoreLockAcquire ==
  /\ \E t \in Threads : LockAcquire(t)
  /\ UNCHANGED <<log, requestVars, managerVars, authVars>>

StoreAppendBody ==
  /\ \E t \in Writers : AppendBody(t)
  /\ UNCHANGED <<log, requestVars, managerVars, authVars>>

StoreListIterate ==
  /\ \E t \in Readers : ListIterate(t)
  /\ UNCHANGED <<log, requestVars, managerVars, authVars>>

StoreListBody ==
  /\ \E t \in Readers : ListBody(t)
  /\ UNCHANGED <<log, requestVars, managerVars, authVars>>

StoreNext ==
  \/ StoreAppendCall
  \/ StoreListCall
  \/ StoreLockAcquire
  \/ StoreAppendBody
  \/ StoreListIterate
  \/ StoreListBody

StoreSpec == StoreInit /\ [][StoreNext]_vars

----------------------------------------------------------------------------
(* ManagerSpec: TenantManager.run_operation *)

\* tenant ids passed to run_operation; "t2" is not configured
TenantIds == {"t1", "t2"}

\* correlation_id arguments: absent, the empty string, a tracing id
CorrelationArgs == {None, "", "c1"}

\* the closures main.py and webapp.py pass: ops.list_users and
\* ops.create_security_group; each makes one Graph request
Operations == {"list_users", "create_security_group"}

\* TenantOperations: the url the operation requests
OperationUrl(oper) == IF oper = "list_users" THEN UsersUrl ELSE GroupsUrl

\* the responses the server gives in ManagerSpec: a 200 with a body that is
\* no JSON, a JSON array or a page of users, and a hard failure; this server
\* does not throttle, so the request of an operation never sleeps
ManagerResponses ==
  {ResponseOf(200, NoHeader, b) :
     b \in {PlainBody, ArrayBody, UsersBody}}
    \cup {Response(404, NoHeader)}

\* str(uuid.uuid4()) of the n-th call: a fresh value each time
Uuid4(n) == <<"uuid-1", "uuid-2", "uuid-3", "uuid-4", "uuid-5", "uuid-6">>[n]

\* tenant_manager.py:60  correlation_id or str(uuid.uuid4())
CorrelationOrFresh(given, fresh) == IF Truthy(given) THEN given ELSE fresh

\* kwargs of the events of tenant_manager.py:38-45
ValidatedKwargs(tenant) ==
  [tenant_id |-> tenant.tenant_id,
   required_app_roles |-> <<>>,
   required_delegated_permissions |-> <<>>]

\* kwargs of operation_started and operation_completed, lines 62 and 65
OperationKwargs(tid, cid) == [tenant_id |-> tid, correlation_id |-> cid]

\* a get_tenant that falls back to some tenant for an id it does not know
GetTenantOrDefault(cache, tenant_id) ==
  [kind |-> "return",
   value |-> IF tenant_id \in DOMAIN cache THEN cache[tenant_id] ELSE TenantT2]

\* tenant_manager.py:24-28  get_tenant
GetTenant(cache, tenant_id) ==
  IF tenant_id \notin DOMAIN cache
  THEN [kind |-> "raise", type |-> "KeyError"]
  ELSE [kind |-> "return", value |-> cache[tenant_id]]

\* self._tenant_cache.setdefault(tenant.tenant_id, tenant): an id already
\* configured keeps its entry
CacheSetDefault(cache, tenant) ==
  [k \in DOMAIN cache \cup {tenant.tenant_id} |->
     IF k \in DOMAIN cache THEN cache[k] ELSE tenant]

\* tenant_manager.py:31  self._tenant_cache[tenant.tenant_id] = tenant
CacheSet(cache, tenant) ==
  [k \in DOMAIN cache \cup {tenant.tenant_id} |->
     IF k = tenant.tenant_id THEN tenant ELSE cache[k]]

\* tenant_manager.py:22  {tenant.tenant_id: tenant for tenant in config.tenants}
RECURSIVE CacheOf(_)
CacheOf(tenants) ==
  IF tenants = <<>> THEN EmptyDict
  ELSE CacheSet(CacheOf(SubSeq(tenants, 1, Len(tenants) - 1)), tenants[Len(tenants)])

\* tenant_manager.py:30-32  onboard_tenant: the cache and the events after it
OnboardTenantResult(cache, tenant) ==
  [outcome |-> [kind |-> "return"],
   cache |-> CacheSet(cache, tenant),
   events |-> <<Info("tenant_onboarded",
                     [tenant_id |-> tenant.tenant_id,
                      display_name |-> tenant.display_name])>>]

\* self._tenant_cache.pop(tenant_id) without a default: KeyError for an id
\* that is not configured, before any event
OffboardTenantStrict(cache, tenant_id) ==
  IF tenant_id \notin DOMAIN cache
  THEN [outcome |-> [kind |-> "raise", type |-> "KeyError"],
        cache |-> cache,
        events |-> <<>>]
  ELSE [outcome |-> [kind |-> "return"],
        cache |-> [k \in DOMAIN cache \ {tenant_id} |-> cache[k]],
        events |-> <<Info("tenant_offboarded", [tenant_id |-> tenant_id])>>]

\* tenant_manager.py:34-36  offboard_tenant: pop(tenant_id, None), then the event
OffboardTenantResult(cache, tenant_id) ==
  [outcome |-> [kind |-> "return"],
   cache |-> [k \in DOMAIN cache \ {tenant_id} |-> cache[k]],
   events |-> <<Info("tenant_offboarded", [tenant_id |-> tenant_id])>>]

ManagerInit ==
  /\ max_events = DefaultMaxEvents
  /\ events = <<>>
  /\ log = <<>>
  /\ InitStoreIdle
  /\ tenant_config = TenantT1
  /\ max_retries = DefaultMaxRetries
  /\ pc = "none"
  /\ InitRequestIdle
  /\ InitManagerIdle
  /\ InitAuthIdle

\* the calls of ManagerSpec are made one after the other
CallBegins ==
  /\ op_pc = "idle"
  /\ Len(calls) + Len(context_calls) < MaxOps

\* tenant_manager.py:60-61, 48: run_operation computes the correlation id
\* and calls with_context, which looks the tenant up; KeyError leaves both
RunOperation(tid, given, oper) ==
  LET fresh == Uuid4(uuid_count + 1)
      cid == CorrelationOrFresh(given, fresh)
      found == GetTenant(tenant_cache, tid)
  IN /\ CallBegins
     /\ uuid_count' = IF cid = given THEN uuid_count ELSE uuid_count + 1
     /\ IF found.kind = "raise"
        THEN /\ calls' = Append(calls,
                          [tenant_id |-> tid, given |-> given, correlation_id |-> cid,
                           first |-> Len(log) + 1, done |-> TRUE, last |-> Len(log),
                           outcome |-> found])
             /\ UNCHANGED <<op_pc, operation, correlation_id, context_tenant>>
        ELSE /\ op_pc' = "validating"
             /\ operation' = oper
             /\ correlation_id' = cid
             /\ context_tenant' = found.value
             /\ calls' = Append(calls,
                          [tenant_id |-> tid, given |-> given, correlation_id |-> cid,
                           first |-> Len(log) + 1, done |-> FALSE, last |-> Len(log),
                           outcome |-> NoResult])
     /\ UNCHANGED <<max_events, events, log, threadVars, requestVars, tenant_cache,
                    context_calls, registry_calls, authVars>>

\* one record of context_calls: the call, the tenant id it was about, how
\* it ended and the positions in the log of the events it recorded
ContextCall(op, tenant_id, done, recorded, outcome) ==
  [op |-> op, tenant_id |-> tenant_id, done |-> done,
   first |-> Len(log) + 1, last |-> Len(log) + recorded, outcome |-> outcome]

\* tenant_manager.py:48: with_context, called from outside run_operation,
\* looks the tenant up
WithContext ==
  \E tid \in TenantIds :
    LET found == GetTenant(tenant_cache, tid)
    IN /\ CallBegins
       /\ IF found.kind = "raise"
          THEN /\ context_calls' =
                    Append(context_calls,
                           ContextCall("with_context", tid, TRUE, 0, found))
               /\ UNCHANGED <<op_pc, context_tenant>>
          ELSE /\ op_pc' = "validating"
               /\ context_tenant' = found.value
               /\ context_calls' =
                    Append(context_calls,
                           ContextCall("with_context", tid, FALSE, 0, NoResult))
       /\ UNCHANGED <<max_events, events, log, threadVars, requestVars,
                      tenant_cache, operation, correlation_id, uuid_count, calls,
                      registry_calls, authVars>>

\* tenant_manager.py:49-52 with 38-45: with_context calls
\* validate_permissions, which records tenant_validated, builds the
\* authenticator and the client and returns the context, to run_operation
\* or to the caller outside
ValidatePermissions ==
  /\ op_pc = "validating"
  /\ Emit(<<Info("tenant_validated", ValidatedKwargs(context_tenant))>>)
  /\ tenant_config' = context_tenant
  /\ max_retries' = DefaultMaxRetries
  /\ pc' = "idle"
  /\ context_tenant' = None
  /\ IF operation = None
     THEN /\ op_pc' = "idle"
          /\ context_calls' =
               [context_calls EXCEPT
                  ![Len(context_calls)].done = TRUE,
                  ![Len(context_calls)].last = Len(log) + 1,
                  ![Len(context_calls)].outcome =
                     [kind |-> "return", tenant_id |-> context_tenant.tenant_id]]
     ELSE /\ op_pc' = "starting"
          /\ UNCHANGED context_calls
  /\ UNCHANGED <<max_events, threadVars, url, caller_headers, headers, attempt,
                 backoff, sent, responses, sleeps, token_calls, result,
                 tenant_cache, operation, correlation_id, uuid_count, calls,
                 registry_calls, authVars>>

\* tenant_manager.py:38-45: validate_permissions called from outside the
\* manager with some TenantConfig
ValidatePermissionsCall ==
  \E tenant \in TenantConfigs :
    /\ CallBegins
    /\ Emit(<<Info("tenant_validated", ValidatedKwargs(tenant))>>)
    /\ context_calls' =
         Append(context_calls,
                ContextCall("validate_permissions", tenant.tenant_id, TRUE, 1,
                            [kind |-> "return"]))
    /\ UNCHANGED <<max_events, threadVars, requestVars, tenant_cache, op_pc,
                   operation, correlation_id, uuid_count, calls, context_tenant,
                   registry_calls, authVars>>

\* tenant_manager.py:62-63: run_operation records operation_started and
\* builds the operations facade
OperationStarted ==
  /\ op_pc = "starting"
  /\ Emit(<<Info("operation_started",
                 OperationKwargs(calls[Len(calls)].tenant_id, correlation_id))>>)
  /\ op_pc' = "in_operation"
  /\ UNCHANGED <<max_events, threadVars, requestVars, tenant_cache, operation,
                 correlation_id, uuid_count, calls, context_tenant, context_calls,
                 registry_calls, authVars>>

\* tenant_manager.py:64: the operation is called and calls
\* context.graph.get / post, which calls request
OperationRequest ==
  /\ op_pc = "in_operation"
  /\ RequestStart(OperationUrl(operation), EmptyDict)

OperationAttempt == \E r \in ManagerResponses : Attempt(r)

\* operation_completed recorded however the operation ended, as a
\* try/finally would
CompletedAlways(outcome, tid, cid) ==
  <<Info("operation_completed", OperationKwargs(tid, cid))>>

\* tenant_manager.py:64-65: what run_operation records after operation(ops)
\* ended with `outcome`; line 65 is reached only when it returned
EndEvents(outcome, tid, cid) ==
  IF outcome.kind = "return"
  THEN <<Info("operation_completed", OperationKwargs(tid, cid))>>
  ELSE <<>>

\* TenantOperations.list_users after self.context.graph.get ended with
\* `requested`, answered by `response` when it returned: response.json(),
\* then data.get("value", [])
ListUsers(requested, response) ==
  IF requested.kind = "raise" THEN requested
  ELSE IF response.json.kind = "raise" THEN response.json
  ELSE IF response.json.value.type # "dict"
  THEN [kind |-> "raise", type |-> "AttributeError",
        message |-> "'" \o response.json.value.type
                        \o "' object has no attribute 'get'"]
  ELSE [kind |-> "return",
        value |-> IF "value" \in DOMAIN response.json.value.members
                  THEN response.json.value.members["value"]
                  ELSE JsonArray(<<>>)]

\* TenantOperations.create_security_group after self.context.graph.post
\* ended with `requested`: return response.json()
CreateSecurityGroup(requested, response) ==
  IF requested.kind = "raise" THEN requested ELSE response.json

\* operation(ops): how the closure ends once its request has
OperationOutcome(oper, requested, response) ==
  IF oper = "list_users" THEN ListUsers(requested, response)
  ELSE CreateSecurityGroup(requested, response)

\* run_operation, lines 64-66: the operation goes on from the end of its
\* request; it returns and operation_completed is recorded, or it raises and
\* the error leaves run_operation
OperationEnd ==
  /\ op_pc = "in_operation"
  /\ pc \in {"returned", "raised"}
  /\ LET c == calls[Len(calls)]
         response == IF responses = <<>> THEN Response(0, NoHeader)
                     ELSE responses[Len(responses)]
         outcome == OperationOutcome(operation, result, response)
         evs == EndEvents(outcome, c.tenant_id, correlation_id)
     IN /\ Emit(evs)
        /\ calls' = [calls EXCEPT ![Len(calls)] =
                       [c EXCEPT !.done = TRUE, !.last = Len(log) + Len(evs),
                                 !.outcome = outcome]]
  /\ op_pc' = "idle"
  /\ operation' = None
  /\ correlation_id' = None
  /\ pc' = "none"
  /\ url' = None
  /\ caller_headers' = EmptyDict
  /\ headers' = EmptyDict
  /\ attempt' = 0
  /\ backoff' = 0
  /\ sent' = <<>>
  /\ responses' = <<>>
  /\ sleeps' = <<>>
  /\ token_calls' = 0
  /\ result' = NoResult
  /\ UNCHANGED <<max_events, threadVars, tenant_config, max_retries, tenant_cache,
                 uuid_count, context_tenant, context_calls, registry_calls,
                 authVars>>

ManagerRunOperation ==
  \E tid \in TenantIds, given \in CorrelationArgs, oper \in Operations :
    RunOperation(tid, given, oper)

ManagerNext ==
  \/ ManagerRunOperation
  \/ WithContext
  \/ ValidatePermissionsCall
  \/ ValidatePermissions
  \/ OperationStarted
  \/ OperationRequest
  \/ RequestToken
  \/ AttemptSend
  \/ OperationAttempt
  \/ OperationEnd

ManagerSpec == ManagerInit /\ [][ManagerNext]_vars

----------------------------------------------------------------------------
(* RegistrySpec: TenantManager.onboard_tenant, offboard_tenant, get_tenant *)

\* tenant ids passed to offboard_tenant and get_tenant: t1 is configured
\* unless the config is empty or t1 was offboarded, t3 is never configured
RegistryIds == {"t1", "t3"}

\* the tenants passed to onboard_tenant: another configuration of t1, and t2
RegistryTenants == {TenantT1b, TenantT2}

\* config.tenants of the ControlPlaneConfig the manager is built with; the
\* list of a config file may name one id twice
ConfiguredTenants ==
  {<<>>, <<TenantT1>>, <<TenantT1, TenantT2>>, <<TenantT1, TenantT1b>>}

RegistryInit ==
  /\ max_events = DefaultMaxEvents
  /\ events = <<>>
  /\ log = <<>>
  /\ InitStoreIdle
  /\ tenant_config = TenantT1
  /\ max_retries = DefaultMaxRetries
  /\ pc = "none"
  /\ InitRequestIdle
  /\ InitAuthIdle
  /\ \E tenants \in ConfiguredTenants : tenant_cache = CacheOf(tenants)
  /\ op_pc = "idle"
  /\ operation = None
  /\ correlation_id = None
  /\ uuid_count = 0
  /\ calls = <<>>
  /\ context_tenant = None
  /\ context_calls = <<>>
  /\ registry_calls = <<>>

\* one record of registry_calls, written when the call reads or changes the
\* cache: the call, its argument, the cache before and after it, its
\* outcome, and where the call is: "build", "append", "log" inside the
\* audit.info call that follows the cache change, "returned" after it
\* (`done`). `event` is the local event of _log, `built` the reading of the
\* clock _build_event stamped it with (the number of events built so far),
\* `stored` the number of events appended to the store when it was, and
\* first..last are the positions in the log of the lines the call wrote.
RegistryCall(op, arg, tenant_id, res) ==
  [op |-> op, arg |-> arg, tenant_id |-> tenant_id, before |-> tenant_cache,
   after |-> res.cache, outcome |-> res.outcome,
   pc |-> IF res.events = <<>> THEN "returned" ELSE "build",
   done |-> (res.events = <<>>),
   event |-> None, built |-> 0, stored |-> 0,
   first |-> Len(log) + 1, last |-> Len(log)]

\* the threads that call the registry; each is in one call at a time
RegistryThreads == {"A", "B"}

\* the statement of a registry method that reads or changes the cache: one
\* dict operation of the calling thread, a thread that is in no other call
RegistryStep(op, arg, tenant_id, res) ==
  /\ Len(registry_calls) < MaxRegistryCalls
  /\ Cardinality({i \in 1..Len(registry_calls) : ~registry_calls[i].done})
       < Cardinality(RegistryThreads)
  /\ tenant_cache' = res.cache
  /\ registry_calls' = Append(registry_calls, RegistryCall(op, arg, tenant_id, res))
  /\ UNCHANGED <<max_events, events, log, threadVars, requestVars, authVars,
                 op_pc, operation, correlation_id, uuid_count, calls,
                 context_tenant, context_calls>>

\* audit.py:62 reached from tenant_manager.py:32 or 36: _log builds the
\* event of a registry call and stamps it with the time
RegistryBuild ==
  \E i \in 1..Len(registry_calls) :
    LET c == registry_calls[i]
        built == IF c.op = "onboard_tenant"
                 THEN OnboardTenantResult(c.before, c.arg).events[1]
                 ELSE OffboardTenantResult(c.before, c.tenant_id).events[1]
    IN /\ c.pc = "build"
       /\ registry_calls' =
            [registry_calls EXCEPT ![i].pc = "append",
                                   ![i].event = built,
                                   ![i].built =
                                     1 + Cardinality({j \in 1..Len(registry_calls) :
                                                        registry_calls[j].built > 0})]
       /\ UNCHANGED <<max_events, events, log, threadVars, requestVars, authVars,
                      tenant_cache, op_pc, operation, correlation_id, uuid_count,
                      calls, context_tenant, context_calls>>

\* audit.py:63-64 with 30-32: store.append takes the store's lock, puts the
\* event into the deque and releases the lock
RegistryAppend ==
  \E i \in 1..Len(registry_calls) :
    /\ registry_calls[i].pc = "append"
    /\ events' = AppendLeft(events, registry_calls[i].event, max_events)
    /\ registry_calls' =
         [registry_calls EXCEPT ![i].pc = "log",
                                ![i].stored =
                                  1 + Cardinality({j \in 1..Len(registry_calls) :
                                                     registry_calls[j].stored > 0})]
    /\ UNCHANGED <<max_events, log, threadVars, requestVars, authVars,
                   tenant_cache, op_pc, operation, correlation_id, uuid_count,
                   calls, context_tenant, context_calls>>

\* audit.py:65: logger.log writes the line of the event under the handler's
\* lock, and the registry call returns
RegistryLog ==
  \E i \in 1..Len(registry_calls) :
    /\ registry_calls[i].pc = "log"
    /\ log' = Append(log, registry_calls[i].event)
    /\ registry_calls' =
         [registry_calls EXCEPT ![i].pc = "returned",
                                ![i].done = TRUE,
                                ![i].first = Len(log) + 1,
                                ![i].last = Len(log) + 1]
    /\ UNCHANGED <<max_events, events, threadVars, requestVars, authVars,
                   tenant_cache, op_pc, operation, correlation_id, uuid_count,
                   calls, context_tenant, context_calls>>

\* tenant_manager.py:31  onboard_tenant assigns the cache entry
OnboardTenant ==
  \E tenant \in RegistryTenants :
    RegistryStep("onboard_tenant", tenant, tenant.tenant_id,
                 OnboardTenantResult(tenant_cache, tenant))

\* tenant_manager.py:35  offboard_tenant pops the cache entry
OffboardTenant ==
  \E tid \in RegistryIds :
    RegistryStep("offboard_tenant", tid, tid,
                 OffboardTenantResult(tenant_cache, tid))

\* tenant_manager.py:24-28  get_tenant
GetTenantCall ==
  \E tid \in RegistryIds :
    RegistryStep("get_tenant", tid, tid,
                 [outcome |-> GetTenant(tenant_cache, tid),
                  cache |-> tenant_cache,
                  events |-> <<>>])

\* the registry methods are called by the threads of RegistryThreads: a
\* call may begin, and the audit.info call of the other thread goes on,
\* while a call has changed the cache and has not yet built, stored or
\* written its event
RegistryNext ==
  \/ OnboardTenant
  \/ OffboardTenant
  \/ GetTenantCall
  \/ RegistryBuild
  \/ RegistryAppend
  \/ RegistryLog

RegistrySpec == RegistryInit /\ [][RegistryNext]_vars

----------------------------------------------------------------------------
(* AuthSpec: one SecretRef.resolve call, or one acquire_token call *)

SecretVar == "SECRET_VAR"

VaultUri == "https://vault.example/secrets/graph"

\* the SecretRefs a config file can hold: each field absent, empty or given
SecretRefs ==
  {SecretRef(env, value, uri) :
     env \in {None, "", SecretVar}, value \in {None, "", "inline"},
     uri \in {None, VaultUri}}

\* os.environ: SECRET_VAR unset, set, set to the empty string
Environs == {EmptyDict, [k \in {SecretVar} |-> "s3cret"], [k \in {SecretVar} |-> ""]}

\* a tenant whose client secret is read from the environment
TenantEnvSecret ==
  [tenant_id |-> "t3", display_name |-> "Tenant Three",
   auth |-> [type |-> "client_secret", client_id |-> "app-3",
             client_secret |-> SecretRef(SecretVar, None, None)],
   graph_base_url |-> "https://graph.microsoft.com"]

\* tenants with certificate auth, with and without a certificate password
TenantCert ==
  [tenant_id |-> "t4", display_name |-> "Tenant Four",
   auth |-> [type |-> "certificate", client_id |-> "app-4",
             certificate_path |-> "/etc/certs/t4.pem",
             certificate_password |-> SomeSecretRef(SecretRef(SecretVar, None, None))],
   graph_base_url |-> "https://graph.microsoft.com"]

TenantCertNoPassword ==
  [tenant_id |-> "t5", display_name |-> "Tenant Five",
   auth |-> [type |-> "certificate", client_id |-> "app-5",
             certificate_path |-> "/etc/certs/t5.pem",
             certificate_password |-> NoSecretRef],
   graph_base_url |-> "https://graph.microsoft.com"]

AuthTenants == {TenantT1, TenantT2, TenantEnvSecret, TenantCert, TenantCertNoPassword}

\* what acquire_token_silent returns: None, as it does for account=None, an
\* empty dict, a cached token
SilentResults == {NoneDict, SomeDict(EmptyDict), SomeDict([access_token |-> "cached"])}

\* what acquire_token_for_client returns: a token, an empty token, an error
\* response, None
ForClientResults ==
  {SomeDict([access_token |-> "tok"]), SomeDict([access_token |-> ""]),
   SomeDict([error |-> "invalid_client"]), NoneDict}

\* how ManagedIdentityCredential.get_token ends
GetTokenResults ==
  {[kind |-> "return", token |-> "tok"], [kind |-> "return", token |-> ""],
   [kind |-> "raise", type |-> "CredentialUnavailableError"]}

Worlds ==
  {World(environ, readable, silent, for_client, get_token) :
     environ \in Environs, readable \in BOOLEAN, silent \in SilentResults,
     for_client \in ForClientResults, get_token \in GetTokenResults}

AuthInit ==
  /\ max_events = DefaultMaxEvents
  /\ events = <<>>
  /\ log = <<>>
  /\ InitStoreIdle
  /\ tenant_config = TenantT1
  /\ max_retries = DefaultMaxRetries
  /\ pc = "none"
  /\ InitRequestIdle
  /\ InitManagerIdle
  /\ \/ \E ref \in SecretRefs, environ \in Environs :
          auth = [pc |-> "resolve", ref |-> ref, environ |-> environ]
     \/ \E tenant \in AuthTenants, world \in Worlds :
          auth = [pc |-> "acquire_token", tenant |-> tenant, world |-> world]

\* SecretRef.resolve is called
ResolveCall ==
  /\ auth.pc = "resolve"
  /\ auth' = [pc |-> "resolved", ref |-> auth.ref, environ |-> auth.environ,
              outcome |-> Resolve(auth.ref, auth.environ)]
  /\ UNCHANGED <<max_events, events, log, threadVars, requestVars, managerVars>>

\* auth.py:31-39, 51-59, 71-72, 81: what acquire_token does before it asks
\* for a token: it raises, or it goes into acquire_token_silent ("silent")
\* or into get_token ("get_token")
BeforeExchange(tenant, world) ==
  LET auth_config == tenant.auth
  IN IF auth_config.type = "client_secret"
     THEN IF Resolve(auth_config.client_secret, world.environ).kind = "raise"
          THEN Resolve(auth_config.client_secret, world.environ)
          ELSE [kind |-> "call", pc |-> "silent"]
     ELSE IF auth_config.type = "certificate"
     THEN IF LoadCertificate(auth_config, world).kind = "raise"
          THEN LoadCertificate(auth_config, world)
          ELSE [kind |-> "call", pc |-> "silent"]
     ELSE IF auth_config.type = "managed_identity"
     THEN [kind |-> "call", pc |-> "get_token"]
     ELSE ValueError("Unsupported authentication configuration")

\* the acquire_token call goes into its next blocking call
AcquireTokenEnters(next_pc) ==
  /\ auth' = [pc |-> next_pc, tenant |-> auth.tenant, world |-> auth.world]
  /\ UNCHANGED <<events, log>>

\* the acquire_token call ends: auth.py:43-49, 63-69, 74-79 after the last
\* blocking call returned, or the raise that ended it before
AcquireTokenEnds ==
  LET acq == AcquireToken(auth.tenant, auth.world)
  IN /\ Emit(acq.events)
     /\ auth' = [pc |-> "acquired", tenant |-> auth.tenant, world |-> auth.world,
                 outcome |-> acq.outcome]

\* GraphAuthenticator.acquire_token is called and runs up to its first
\* blocking call
AcquireTokenCall ==
  /\ auth.pc = "acquire_token"
  /\ LET before == BeforeExchange(auth.tenant, auth.world)
     IN IF before.kind = "raise"
        THEN AcquireTokenEnds
        ELSE AcquireTokenEnters(before.pc)
  /\ UNCHANGED <<max_events, threadVars, requestVars, managerVars>>

\* auth.py:40-41, 60-61: acquire_token_silent returned
AcquireTokenSilent ==
  /\ auth.pc = "silent"
  /\ IF FalsyDict(auth.world.silent)
     THEN AcquireTokenEnters("for_client")
     ELSE AcquireTokenEnds
  /\ UNCHANGED <<max_events, threadVars, requestVars, managerVars>>

\* auth.py:42, 62: acquire_token_for_client returned
AcquireTokenForClient ==
  /\ auth.pc = "for_client"
  /\ AcquireTokenEnds
  /\ UNCHANGED <<max_events, threadVars, requestVars, managerVars>>

\* auth.py:73: ManagedIdentityCredential.get_token returned or raised
AcquireTokenGetToken ==
  /\ auth.pc = "get_token"
  /\ AcquireTokenEnds
  /\ UNCHANGED <<max_events, threadVars, requestVars, managerVars>>

AuthNext ==
  \/ ResolveCall
  \/ AcquireTokenCall
  \/ AcquireTokenSilent
  \/ AcquireTokenForClient
  \/ AcquireTokenGetToken

AuthSpec == AuthInit /\ [][AuthNext]_vars

----------------------------------------------------------------------------
(* Properties *)

IsPrefix(s, t) == Len(s) <= Len(t) /\ SubSeq(t, 1, Len(s)) = s

Messages(l) == [i \in 1..Len(l) |-> l[i].message]

WithMessage(l, message) == SelectSeq(l, LAMBDA e : e.message = message)

\* the mocked responses [429 (Retry-After: 2), 429 (no header), 200]
ThrottledTwiceThenOk ==
  <<Response(429, Header(<<50>>)), Response(429, NoHeader), Response(200, NoHeader)>>

\* a request with max_retries = 3 that has so far been answered by the first
\* responses of ThrottledTwiceThenOk, or by all of them and more
ThrottledTwiceRun ==
  /\ max_retries = 3
  /\ responses # <<>>
  /\ IsPrefix(responses, ThrottledTwiceThenOk) \/ IsPrefix(ThrottledTwiceThenOk, responses)

\* C1: with max_retries = 3 and the responses [429 (Retry-After: 2), 429 (no
\* header), 200] the call issues exactly three HTTP attempts, goes on after
\* each of the two 429 responses, returns the 200 response on the third
\* attempt, and records after the token event exactly graph_throttled,
\* graph_throttled, graph_request_succeeded, in that order; nothing is sent
\* or slept after the success.  While an attempt waits for its response it
\* is one more than the responses.
C1_ThrottledTwiceThenSucceeds ==
  ThrottledTwiceRun =>
    /\ Len(responses) <= 3
    /\ Len(sent) = IF pc = "sent" THEN Len(responses) + 1 ELSE Len(responses)
    /\ Messages(log) =
         <<"acquired_app_token">> \o
           Take(<<"graph_throttled", "graph_throttled", "graph_request_succeeded">>,
                Len(responses))
    /\ Len(responses) < 3 =>
         /\ pc \in {"sleeping", "loop", "sent"}
         /\ Len(sleeps) = Len(responses)
    /\ Len(responses) = 3 =>
         /\ pc = "returned"
         /\ result = [kind |-> "return", status_code |-> 200]
         /\ sent[3].attempt = 3
         /\ Len(sleeps) = 2

C1_Witness ==
  /\ max_retries = 3
  /\ responses = ThrottledTwiceThenOk
  /\ pc = "returned"
  /\ Len(sent) = 3

\* C2 as stated: for that run the dispatcher sleeps 2 seconds after the first
\* response and 1 second after the second.
C2_SleepsTwoThenOne ==
  (ThrottledTwiceRun /\ Len(sleeps) >= 2) => sleeps = <<Seconds(2), Seconds(1)>>

\* C2, amended: for that run the dispatcher sleeps 2 seconds after the first
\* response and 2 seconds after the second: the backoff value was doubled
\* from 1 to 2 after the first throttled response although Retry-After was
\* the interval slept.
C2_SleepsTwoThenTwo ==
  ThrottledTwiceRun =>
    sleeps = Take(<<Seconds(2), Seconds(2)>>, Len(responses))

C2_Witness ==
  /\ max_retries = 3
  /\ responses = ThrottledTwiceThenOk
  /\ sleeps = <<Seconds(2), Seconds(2)>>
  /\ backoff = 4
  /\ pc = "returned"

\* C3: for every max_retries >= 0, when the first max_retries + 1 responses
\* all have status 429, 503 or 504 the call has failed with the error of
\* exhausted retries, has returned no response, and has recorded no
\* graph_request_succeeded event.
C3_ExhaustedRetriesRaise ==
  (/\ pc \in {"returned", "raised"}
   /\ Len(responses) = max_retries + 1
   /\ \A i \in 1..Len(responses) : responses[i].status_code \in {429, 503, 504})
  => /\ pc = "raised"
     /\ result.kind = "raise"
     /\ result.type = "RuntimeError"
     /\ result.message = "Maximum retry attempts exceeded for Graph request"
     /\ WithMessage(log, "graph_request_succeeded") = <<>>
     /\ Len(sent) = max_retries + 1

\* C4: a response with a status >= 400 other than 429, 503 and 504 ends the
\* call on that attempt with the HTTP status error of that response; exactly
\* one graph_request_failed event is recorded, it is the last event, no
\* graph_request_succeeded event is recorded, and no sleep follows the
\* response.
C4_HardFailureRaisesAtOnce ==
  \A i \in 1..Len(responses) :
    (responses[i].status_code >= 400 /\ responses[i].status_code \notin {429, 503, 504})
    => /\ i = Len(responses)
       /\ Len(sent) = i
       /\ Len(sleeps) = i - 1
       /\ pc = "raised"
       /\ result.kind = "raise"
       /\ result.type = "HTTPStatusError"
       /\ result.status_code = responses[i].status_code
       /\ Len(WithMessage(log, "graph_request_failed")) = 1
       /\ log[Len(log)].message = "graph_request_failed"
       /\ log[Len(log)].extra.status = responses[i].status_code
       /\ WithMessage(log, "graph_request_succeeded") = <<>>

\* a single 404
C4_Witness ==
  /\ responses = <<Response(404, NoHeader)>>
  /\ pc = "raised"
  /\ sleeps = <<>>

\* the deque after the first k appends that completed
BufferAfter(k) == Take(Reverse(SubSeq(appended, 1, k)), max_events)

\* C5 as stated: a list(limit) call that read the buffer when n events had
\* been appended returned the min(limit, capacity, n) most recently appended
\* of them, most recent first (none for a count below one), and the buffer
\* it read was the buffer the appends had left.
C5_ListReturnsMinOfLimitCapacityAppended ==
  \A t \in Readers :
    (tpc[t] = "idle" /\ snap[t] >= 0) =>
      /\ list_result[t] =
           Take(Reverse(SubSeq(appended, 1, snap[t])),
                Max(0, Min(list_limit[t], Min(max_events, snap[t]))))
      /\ iter_events[t] = BufferAfter(snap[t])

\* how many events list(limit) returns of a buffer holding `held`: limit of
\* them at most, and for a limit below zero all but the -limit oldest
ListCount(limit, held) ==
  IF limit >= 0 THEN Min(limit, held) ELSE Max(0, held + limit)

\* C5: a list(limit) call that read the buffer when n events had been
\* appended returned the most recently appended of them, most recent first:
\* min(limit, capacity, n) of them for limit >= 0, and for limit < 0 the
\* min(capacity, n) the buffer held but the -limit oldest; no step of a
\* list call changes the buffer.
C5_ListReturnsMostRecentFirst ==
  /\ [](\A t \in Readers :
          (tpc[t] = "idle" /\ snap[t] >= 0) =>
            /\ list_result[t] =
                 Take(Reverse(SubSeq(appended, 1, snap[t])),
                      ListCount(list_limit[t], Min(max_events, snap[t])))
            /\ iter_events[t] = BufferAfter(snap[t]))
  /\ [][\A t \in Readers : tpc'[t] # tpc[t] => events' = events]_vars

\* capacity 3, E1..E5 appended in that order, list(-1) = [E5, E4]
C5_Witness ==
  /\ max_events = 3
  /\ appended = <<E(1), E(2), E(3), E(4), E(5)>>
  /\ \E t \in Readers :
       /\ tpc[t] = "idle"
       /\ snap[t] = 5
       /\ list_limit[t] = -1
       /\ list_result[t] = <<E(5), E(4)>>

\* C6: the store never holds more events than its capacity max_events.
C6_StoreWithinCapacity == Len(events) <= max_events

\* more events appended than the capacity, and the store is full
C6_Witness ==
  /\ max_events > 0
  /\ Len(appended) > max_events
  /\ Len(events) = max_events
  /\ \E t \in Readers : snap[t] >= 0

\* the events of the k-th run_operation call
CallEvents(k) ==
  SubSeq(log, calls[k].first, IF calls[k].done THEN calls[k].last ELSE Len(log))

StartedOrCompleted(k) ==
  SelectSeq(CallEvents(k),
            LAMBDA e : e.message \in {"operation_started", "operation_completed"})

\* C7: a run_operation call given a correlation id (any string) tags its
\* operation_started and operation_completed events with exactly that id; a
\* call given none tags both with one generated id that no other call has.
C7_CorrelationIdVerbatimOrFresh ==
  \A k \in 1..Len(calls) :
    LET evs == StartedOrCompleted(k)
    IN IF calls[k].given # None
       THEN \A i \in 1..Len(evs) : evs[i].correlation_id = calls[k].given
       ELSE /\ \A i \in 1..Len(evs) : evs[i].correlation_id = calls[k].correlation_id
            /\ \A j \in 1..Len(calls) :
                 j # k => calls[j].correlation_id # calls[k].correlation_id

\* C8: every event recorded between the start and the end of a run_operation
\* call carries the correlation id of that call.
C8_EveryEventCarriesCorrelationId ==
  \A k \in 1..Len(calls) :
    \A i \in 1..Len(CallEvents(k)) :
      CallEvents(k)[i].correlation_id = calls[k].correlation_id

\* C9: in a request that has issued HTTP attempts, a token has been acquired
\* for every attempt: as many acquire_token calls as attempts.
C9_TokenPerAttempt ==
  Len(sent) >= 1 => token_calls = Len(sent)

RECURSIVE BackoffAt(_)
\* the backoff value when the i-th response is handled
BackoffAt(i) == IF i <= 1 THEN InitialBackoff ELSE NextBackoff(BackoffAt(i - 1))

\* the parsed header when there is one, the backoff otherwise
StatedValue(opt, current) ==
  IF opt.present THEN opt.value ELSE Seconds(current)

\* the interval C10 states for a transient response
StatedWait(response, current) ==
  StatedValue(GetRetryAfterSeconds(response), current)

\* C10: the interval slept after a transient response, and reported in its
\* graph_throttled event, is the Retry-After value when the header is present
\* and numeric (0 included), and the current backoff value otherwise.
C10_WaitIsRetryAfterWhenNumeric ==
  \A i \in 1..Len(sleeps) :
    \E stated \in {StatedWait(responses[i], BackoffAt(i))} :
      /\ sleeps[i] = stated
      /\ WithMessage(log, "graph_throttled")[i].extra.retry_after = stated

\* C11: a request call issues at most max_retries + 1 HTTP attempts, and it
\* ends: it returns a response or raises an error.
C11_AtMostBudgetAttemptsAndEnds ==
  /\ [](Len(sent) <= max_retries + 1 /\ (pc = "loop" => attempt <= max_retries + 1))
  /\ <>(pc \in {"returned", "raised"})

\* the whole budget used: max_retries + 1 attempts, with max_retries > 0
C11_Witness ==
  /\ max_retries >= 1
  /\ Len(sent) = max_retries + 1
  /\ pc \in {"returned", "raised"}

\* the events of the k-th call recorded after operation_started: those of
\* the operation and of the end of run_operation
AfterStarted(k) == SubSeq(CallEvents(k), 3, Len(CallEvents(k)))

\* the error the events of the k-th call show its request to have raised
ErrorShown(k) ==
  LET evs == CallEvents(k)
      last == evs[Len(evs)]
  IN CASE last.message = "graph_request_failed" ->
            [kind |-> "raise", type |-> "HTTPStatusError",
             status_code |-> last.extra.status, body |-> last.extra.body]
       [] OTHER ->
            [kind |-> "raise", type |-> "RuntimeError",
             message |-> "Token acquisition failed"]

\* the k-th run_operation call has not yet called its operation: it is in
\* with_context or about to record operation_started
BeforeOperation(k) == ~calls[k].done /\ op_pc \in {"validating", "starting"}

\* C12: in a run_operation call on a configured tenant, operation_started is
\* recorded, right after tenant_validated, before the operation is called,
\* so before anything the operation requests or records; operation_completed
\* is recorded only once the operation has returned, as the last event of
\* the call; when the operation raises, run_operation ends with that same
\* error and records neither operation_completed nor operation_failed.
C12_StartedBeforeCompletedOnlyOnReturn ==
  \A k \in 1..Len(calls) :
    calls[k].outcome # [kind |-> "raise", type |-> "KeyError"] =>
      /\ IF BeforeOperation(k)
         THEN /\ Messages(CallEvents(k)) =
                   IF op_pc = "validating" THEN <<>> ELSE <<"tenant_validated">>
              /\ pc \in {"none", "idle"}
              /\ sent = <<>>
              /\ token_calls = 0
         ELSE Messages(SubSeq(CallEvents(k), 1, 2)) =
                <<"tenant_validated", "operation_started">>
      /\ WithMessage(AfterStarted(k), "operation_started") = <<>>
      /\ WithMessage(CallEvents(k), "operation_failed") = <<>>
      /\ ~calls[k].done => WithMessage(CallEvents(k), "operation_completed") = <<>>
      /\ (calls[k].done /\ calls[k].outcome.kind = "return") =>
           /\ Len(WithMessage(CallEvents(k), "operation_completed")) = 1
           /\ CallEvents(k)[Len(CallEvents(k))].message = "operation_completed"
           /\ CallEvents(k)[Len(CallEvents(k)) - 1].message = "graph_request_succeeded"
      /\ (calls[k].done /\ calls[k].outcome.kind # "return") =>
           /\ WithMessage(CallEvents(k), "operation_completed") = <<>>
           /\ IF CallEvents(k)[Len(CallEvents(k))].message = "graph_request_succeeded"
              THEN calls[k].outcome.type \in {"JSONDecodeError", "AttributeError"}
              ELSE calls[k].outcome = ErrorShown(k)

\* one call whose operation returned and one whose operation raised after
\* its request had succeeded, on a body json() does not decode
C12_Witness ==
  /\ Len(calls) = 2
  /\ Messages(CallEvents(1)) =
       <<"tenant_validated", "operation_started", "acquired_app_token",
         "graph_request_succeeded", "operation_completed">>
  /\ calls[1].done /\ calls[1].outcome.kind = "return"
  /\ log[calls[1].last].message = "operation_completed"
  /\ calls[2].done /\ calls[2].outcome.kind = "raise"
  /\ calls[2].outcome.type = "JSONDecodeError"
  /\ log[Len(log)].message = "graph_request_succeeded"

\* the events the i-th registry call recorded
RegistryEvents(i) == SubSeq(log, registry_calls[i].first, registry_calls[i].last)

\* every entry of cache b other than that of tenant_id is in cache a, unchanged
SameElsewhere(a, b, tenant_id) ==
  /\ DOMAIN a \ {tenant_id} = DOMAIN b \ {tenant_id}
  /\ \A k \in DOMAIN a \ {tenant_id} : a[k] = b[k]

\* how many of the events of l are `event`
CountOf(l, event) == Len(SelectSeq(l, LAMBDA e : e = event))

\* how many calls of registry method op with the argument arg are at one of
\* the places pcs
CallsAt(op, arg, pcs) ==
  Cardinality({j \in 1..Len(registry_calls) :
                 /\ registry_calls[j].op = op
                 /\ registry_calls[j].arg = arg
                 /\ registry_calls[j].pc \in pcs})

\* the store holds the event of every call of (op, arg) that has appended
\* it, once per call, and the log the line of every such call that
\* returned, once per call: a call that has not come that far has left
\* neither
RecordedOncePerCall(op, arg, event) ==
  /\ CountOf(events, event) = CallsAt(op, arg, {"log", "returned"})
  /\ CountOf(log, event) = CallsAt(op, arg, {"returned"})

\* C13: offboard_tenant never raises and has recorded, when it returns,
\* exactly one tenant_offboarded event for the id it was given, in the store
\* first and then as a line of the log, and none before; for an id that is
\* not configured the registry is left as it was, for a configured id
\* exactly that entry is removed (from the pop on, before the event is
\* recorded), and a get_tenant of that id right after the pop raises
\* KeyError
C13_OffboardRemovesOrIsNoOp ==
  \A i \in 1..Len(registry_calls) :
    LET c == registry_calls[i]
    IN c.op = "offboard_tenant" =>
         /\ c.outcome.kind = "return"
         /\ ~c.done => RegistryEvents(i) = <<>>
         /\ c.done =>
              /\ Len(RegistryEvents(i)) = 1
              /\ RegistryEvents(i)[1].message = "tenant_offboarded"
              /\ RegistryEvents(i)[1].tenant_id = c.tenant_id
         /\ RecordedOncePerCall("offboard_tenant", c.arg,
                                Info("tenant_offboarded", [tenant_id |-> c.tenant_id]))
         /\ c.tenant_id \notin DOMAIN c.before => c.after = c.before
         /\ c.tenant_id \in DOMAIN c.before =>
              /\ DOMAIN c.after = DOMAIN c.before \ {c.tenant_id}
              /\ SameElsewhere(c.after, c.before, c.tenant_id)
         /\ (i < Len(registry_calls)
             /\ registry_calls[i + 1].op = "get_tenant"
             /\ registry_calls[i + 1].tenant_id = c.tenant_id)
            => registry_calls[i + 1].outcome = [kind |-> "raise", type |-> "KeyError"]

\* offboard_tenant of an id that is not configured, then of a configured id
\* beside another entry, then get_tenant of that id; the two offboard calls
\* ran side by side: the second built its event first, the first stored its
\* event first, and the line of the second was written first
C13_Witness ==
  /\ Len(registry_calls) = 3
  /\ registry_calls[1].op = "offboard_tenant"
  /\ registry_calls[1].tenant_id \notin DOMAIN registry_calls[1].before
  /\ registry_calls[2].op = "offboard_tenant"
  /\ registry_calls[2].tenant_id \in DOMAIN registry_calls[2].before
  /\ DOMAIN registry_calls[2].after # {}
  /\ registry_calls[3].op = "get_tenant"
  /\ registry_calls[3].tenant_id = registry_calls[2].tenant_id
  /\ registry_calls[3].outcome.kind = "raise"
  /\ \A i \in 1..3 : registry_calls[i].done
  /\ Len(WithMessage(log, "tenant_offboarded")) = 2
  /\ Len(WithMessage(events, "tenant_offboarded")) = 2
  /\ registry_calls[2].built < registry_calls[1].built
  /\ registry_calls[1].stored < registry_calls[2].stored
  /\ registry_calls[2].first < registry_calls[1].first
  /\ Reverse(events) # log

\* the entry the i-th registry call left under the id it was about
EntryAfter(i) == registry_calls[i].after[registry_calls[i].tenant_id]

\* C14: the registry holds one TenantConfig per tenant id, filed under its own
\* id; onboard_tenant(t) leaves t under t.tenant_id, whether the id was
\* configured or not, leaves every other entry as it was and has recorded,
\* when it returns, exactly one tenant_onboarded event, in the store first
\* and then as a line of the log, and none before; a
\* get_tenant of a configured id returns its entry (so t right after
\* onboard_tenant(t) assigned it, recorded or not) and a get_tenant of an id
\* that is not configured raises KeyError
C14_OneConfigPerTenantId ==
  /\ \A k \in DOMAIN tenant_cache : tenant_cache[k].tenant_id = k
  /\ \A i \in 1..Len(registry_calls) :
       LET c == registry_calls[i]
       IN /\ c.op = "onboard_tenant" =>
               /\ c.outcome.kind = "return"
               /\ DOMAIN c.after = DOMAIN c.before \cup {c.tenant_id}
               /\ c.tenant_id = c.arg.tenant_id
               /\ EntryAfter(i) = c.arg
               /\ SameElsewhere(c.after, c.before, c.tenant_id)
               /\ ~c.done => RegistryEvents(i) = <<>>
               /\ c.done =>
                    /\ Len(RegistryEvents(i)) = 1
                    /\ RegistryEvents(i)[1].message = "tenant_onboarded"
                    /\ RegistryEvents(i)[1].tenant_id = c.tenant_id
                    /\ RegistryEvents(i)[1].extra =
                         [display_name |-> c.arg.display_name]
               /\ RecordedOncePerCall(
                    "onboard_tenant", c.arg,
                    Info("tenant_onboarded",
                         [tenant_id |-> c.tenant_id,
                          display_name |-> c.arg.display_name]))
               /\ (i < Len(registry_calls)
                   /\ registry_calls[i + 1].op = "get_tenant"
                   /\ registry_calls[i + 1].tenant_id = c.tenant_id)
                  => registry_calls[i + 1].outcome =
                       [kind |-> "return", value |-> c.arg]
          /\ c.op = "get_tenant" =>
               /\ c.after = c.before
               /\ RegistryEvents(i) = <<>>
               /\ c.tenant_id \notin DOMAIN c.before =>
                    c.outcome = [kind |-> "raise", type |-> "KeyError"]
               /\ c.tenant_id \in DOMAIN c.before =>
                    c.outcome = [kind |-> "return", value |-> c.before[c.tenant_id]]

\* onboard_tenant of another configuration of a configured id, beside another
\* entry; get_tenant then returns the new configuration, called by the
\* other thread before the line of the event was written, and get_tenant of
\* an id that is not configured raises
C14_Witness ==
  /\ Len(registry_calls) = 3
  /\ registry_calls[1].op = "onboard_tenant"
  /\ registry_calls[1].before = CacheOf(<<TenantT1, TenantT2>>)
  /\ registry_calls[1].arg = TenantT1b
  /\ registry_calls[2].op = "get_tenant"
  /\ registry_calls[2].outcome = [kind |-> "return", value |-> TenantT1b]
  /\ registry_calls[3].op = "get_tenant"
  /\ registry_calls[3].tenant_id = "t3"
  /\ registry_calls[3].outcome.kind = "raise"
  /\ registry_calls[1].done
  /\ Len(WithMessage(log, "tenant_onboarded")) = 1
  /\ Len(WithMessage(events, "tenant_onboarded")) = 1
  /\ registry_calls[2].first = 1
  /\ registry_calls[1].first = 1

\* C15 as stated: resolve of a SecretRef whose value is set, here to a
\* non-empty string, returns that value whatever env, key_vault_secret_uri and
\* the environment hold
C15_ValueSetAlwaysReturned ==
  (auth.pc = "resolved" /\ Truthy(auth.ref.value))
    => auth.outcome = [kind |-> "return", value |-> auth.ref.value]

\* C15: resolve of a SecretRef whose value is a non-empty string and whose env
\* is absent or empty returns exactly that value, whatever
\* key_vault_secret_uri and the environment hold
C15_ValueReturnedWhenNoEnv ==
  (auth.pc = "resolved" /\ Truthy(auth.ref.value) /\ ~Truthy(auth.ref.env))
    => auth.outcome = [kind |-> "return", value |-> auth.ref.value]

\* value is returned although key_vault_secret_uri is set too and the
\* environment holds a secret
C15_Witness ==
  /\ auth.pc = "resolved"
  /\ auth.ref = SecretRef(None, "inline", VaultUri)
  /\ SecretVar \in DOMAIN auth.environ
  /\ auth.outcome = [kind |-> "return", value |-> "inline"]

\* C16: resolve raises ValueError when env names a variable that the
\* environment does not hold, whatever the other fields, and when
\* key_vault_secret_uri is the only field set; and whenever resolve returns,
\* it returns a non-empty string that is the value field or the named
\* environment variable
C16_UnsetEnvAndVaultOnlyFail ==
  auth.pc = "resolved" =>
    /\ (Truthy(auth.ref.env) /\ auth.ref.env \notin DOMAIN auth.environ)
         => (auth.outcome.kind = "raise" /\ auth.outcome.type = "ValueError")
    /\ (auth.ref.key_vault_secret_uri # None /\ auth.ref.env = None
          /\ auth.ref.value = None)
         => (auth.outcome.kind = "raise" /\ auth.outcome.type = "ValueError")
    /\ auth.outcome.kind = "return" =>
         /\ auth.outcome.value # ""
         /\ auth.outcome.value # None
         /\ auth.outcome.value \in {auth.ref.value, Getenv(auth.environ, auth.ref.env)}

\* env names a variable that is not set, beside an inline value and a vault
\* uri: resolve raises
C16_Witness ==
  /\ auth.pc = "resolved"
  /\ auth.ref = SecretRef(SecretVar, "inline", VaultUri)
  /\ auth.environ = EmptyDict
  /\ auth.outcome.kind = "raise"

\* C17 as stated: acquire_token returns a non-empty token or raises
C17_NeverReturnsEmptyToken ==
  (auth.pc = "acquired" /\ auth.outcome.kind = "return") => auth.outcome.token # ""

\* C18: an acquire_token call that returned a token recorded exactly one
\* event, acquired_app_token with the tenant id and the auth type of the
\* tenant's auth config; a call that raised recorded none, and none is
\* recorded while the call is still asking for its token
C18_OneAcquiredEventPerToken ==
    IF auth.pc = "acquired" /\ auth.outcome.kind = "return"
    THEN /\ Len(log) = 1
         /\ log[1].message = "acquired_app_token"
         /\ log[1].tenant_id = auth.tenant.tenant_id
         /\ log[1].extra = [auth_type |-> auth.tenant.auth.type]
         /\ events = log
    ELSE log = <<>> /\ events = <<>>

\* a certificate tenant whose exchange fell back to acquire_token_for_client
\* and got a token
C18_Witness ==
  /\ auth.pc = "acquired"
  /\ auth.tenant = TenantCert
  /\ auth.world.silent = NoneDict
  /\ auth.outcome = [kind |-> "return", token |-> "tok"]
  /\ Len(WithMessage(log, "acquired_app_token")) = 1

\* the writers whose append call has not completed
PendingWriters == {t \in Writers : tpc[t] \in {"append_wait", "append_locked"}}

\* C19: whatever the interleaving of the appending threads and the listing
\* thread, every append call that completed put its event into the buffer
\* once, in the order of completion, and only the oldest fall out at
\* capacity; no list call fails, and each list result is the slice of the
\* buffer as it was after some number of completed appends, newest first
C19_ConcurrentAppendsAndList ==
  /\ events = BufferAfter(Len(appended))
  /\ Len(appended) + Cardinality(PendingWriters) = next_event - 1
  /\ \A i, j \in 1..Len(appended) : appended[i] = appended[j] => i = j
  /\ \A i \in 1..Len(appended) : \E n \in 1..(next_event - 1) : appended[i] = E(n)
  /\ \A t \in Readers :
       /\ snap[t] # ListFailed
       /\ tpc[t] = "list_locked" => iter_events[t] = events
       /\ (tpc[t] = "idle" /\ snap[t] >= 0) =>
            /\ snap[t] <= Len(appended)
            /\ list_result[t] = ListEvents(BufferAfter(snap[t]), list_limit[t])

\* a list returned two events of a full buffer while both writers were in
\* append calls, one of which has completed since
C19_Witness ==
  /\ max_events >= 2
  /\ snap["r1"] > max_events
  /\ Len(list_result["r1"]) = 2
  /\ Len(appended) > snap["r1"]
  /\ tpc["r1"] = "idle"
  /\ PendingWriters # {}

\* C20 as stated: every attempt carries the bearer token and every header of
\* the caller with the value the caller gave it
C20_CallerHeadersKeptAsGiven ==
  \A i \in 1..Len(sent) :
    /\ "Authorization" \in DOMAIN sent[i].headers
    /\ sent[i].headers["Authorization"] = "Bearer tok"
    /\ \A k \in DOMAIN caller_headers :
         k \in DOMAIN sent[i].headers /\ sent[i].headers[k] = caller_headers[k]

\* C20: every attempt carries Authorization: Bearer <token>, every header of
\* the caller other than Authorization with the value the caller gave it,
\* and nothing else; an Authorization header of the caller is replaced by
\* the bearer token
C20_CallerHeadersKeptButAuthorization ==
  \A i \in 1..Len(sent) :
    /\ DOMAIN sent[i].headers = DOMAIN caller_headers \cup {"Authorization"}
    /\ sent[i].headers["Authorization"] = "Bearer tok"
    /\ \A k \in DOMAIN caller_headers \ {"Authorization"} :
         sent[i].headers[k] = caller_headers[k]

\* a second attempt of a call whose caller passed X-Request-Id and an
\* Authorization header of its own
C20_Witness ==
  /\ Len(sent) >= 2
  /\ DOMAIN caller_headers = {"X-Request-Id", "Authorization"}
  /\ caller_headers["Authorization"] = "Basic abc"
  /\ sent[2].headers["X-Request-Id"] = "r1"
  /\ sent[2].headers["Authorization"] = "Bearer tok"

\* the transient responses among the first n responses of the call
TransientAmong(n) == {i \in 1..n : responses[i].status_code \in {429, 503, 504}}

\* 1, 2, 4, 8, 16, 30, 30, ...: the value after n doublings capped at 30
CappedPowerOfTwo(n) == IF 2^n > 30 THEN 30 ELSE 2^n

Throttled == WithMessage(log, "graph_throttled")

\* C22: each transient response of a request call is followed by one
\* graph_throttled event, which reports the attempt, the status and the
\* interval, and by one sleep of that interval, the response to the last
\* attempt of the budget included: a call that ends with the retry-exceeded
\* error has slept max_retries + 1 times, and its last recorded event is the
\* graph_throttled of the last attempt
C22_SleepAfterEveryTransientResponse ==
  /\ Len(sleeps) = Cardinality(TransientAmong(Len(responses)))
  /\ Len(Throttled) = Len(sleeps)
  /\ \A i \in TransientAmong(Len(responses)) :
       /\ i <= Len(sleeps)
       /\ Throttled[i].extra.attempt = i
       /\ Throttled[i].extra.status = responses[i].status_code
       /\ Throttled[i].extra.retry_after = sleeps[i]
  /\ (pc = "raised" /\ result.type = "RuntimeError"
       /\ result.message = "Maximum retry attempts exceeded for Graph request")
      => /\ Len(sleeps) = max_retries + 1
         /\ Len(sent) = max_retries + 1
         /\ max_retries + 1 \in TransientAmong(Len(responses))
         /\ log[Len(log)] = Throttled[max_retries + 1]

\* the k-th run_operation call was for a tenant id that is not configured
UnknownTenantCall(k) == calls[k].tenant_id \notin DOMAIN tenant_cache

\* the j-th call from outside the manager was a with_context for a tenant id
\* that is not configured
UnknownTenantContext(j) ==
  /\ context_calls[j].op = "with_context"
  /\ context_calls[j].tenant_id \notin DOMAIN tenant_cache

\* every event in the log for `tenant_id` was recorded by a
\* validate_permissions call made from outside the manager with a
\* TenantConfig of its caller
RecordedForOnlyByCaller(tenant_id) ==
  \A i \in 1..Len(log) :
    log[i].tenant_id = tenant_id =>
      \E j \in 1..Len(context_calls) :
        /\ context_calls[j].op = "validate_permissions"
        /\ context_calls[j].first = i

\* a step that made a run_operation or a with_context call for a tenant id
\* that is not configured
UnknownTenantCalled ==
  \/ /\ Len(calls') = Len(calls) + 1
     /\ calls'[Len(calls')].tenant_id \notin DOMAIN tenant_cache
  \/ /\ Len(context_calls') = Len(context_calls) + 1
     /\ context_calls'[Len(context_calls')].op = "with_context"
     /\ context_calls'[Len(context_calls')].tenant_id \notin DOMAIN tenant_cache

\* C23: a run_operation call and a with_context call for a tenant id that
\* is not in the registry end with KeyError and have recorded no event, so
\* none of tenant_validated, operation_started, operation_completed; the
\* step that makes the call, the only step of the call, leaves the log, the
\* store and the registry as they were and starts no validation, no
\* operation and no Graph request
C23_UnknownTenantFailsBeforeAnyEvent ==
  /\ [](\A k \in 1..Len(calls) :
         UnknownTenantCall(k) =>
           /\ calls[k].done
           /\ calls[k].outcome = [kind |-> "raise", type |-> "KeyError"]
           /\ CallEvents(k) = <<>>
           /\ RecordedForOnlyByCaller(calls[k].tenant_id))
  /\ [](\A j \in 1..Len(context_calls) :
         UnknownTenantContext(j) =>
           /\ context_calls[j].done
           /\ context_calls[j].outcome = [kind |-> "raise", type |-> "KeyError"]
           /\ context_calls[j].last = context_calls[j].first - 1
           /\ RecordedForOnlyByCaller(context_calls[j].tenant_id))
  /\ [][UnknownTenantCalled
         => /\ log' = log
            /\ events' = events
            /\ tenant_cache' = tenant_cache
            /\ op_pc = "idle"
            /\ op_pc' = "idle"
            /\ operation' = operation
            /\ pc' = pc
            /\ sent' = sent
            /\ token_calls' = token_calls]_vars

\* a with_context call and then a run_operation call for t2, which is not
\* in the registry: both raised and the log is empty
C23_Witness ==
  /\ Len(context_calls) = 1
  /\ context_calls[1].op = "with_context"
  /\ context_calls[1].tenant_id = "t2"
  /\ context_calls[1].outcome = [kind |-> "raise", type |-> "KeyError"]
  /\ Len(calls) = 1
  /\ calls[1].tenant_id = "t2"
  /\ calls[1].given = "c1"
  /\ calls[1].outcome = [kind |-> "raise", type |-> "KeyError"]
  /\ log = <<>>
  /\ op_pc = "idle"

\* the error of a token exchange that was refused, by auth variant:
\* _extract_token's RuntimeError, or the error of get_token
RefusedTokenError ==
  IF tenant_config.auth.type = "managed_identity"
  THEN [kind |-> "raise", type |-> "CredentialUnavailableError"]
  ELSE [kind |-> "raise", type |-> "RuntimeError", message |-> "Token acquisition failed"]

\* C24: a request call whose token acquisition failed has ended with the
\* error of the acquisition itself, has issued no HTTP attempt and slept no
\* time, and has recorded no event at all, so none of graph_throttled,
\* graph_request_failed, graph_request_succeeded; and a call ends without an
\* attempt in no other way
C24_TokenFailurePropagates ==
  /\ (pc \in {"returned", "raised"} /\ sent = <<>>) =>
       /\ pc = "raised"
       /\ result = RefusedTokenError
       /\ token_calls = 1
       /\ responses = <<>>
       /\ sleeps = <<>>
       /\ log = <<>>
       /\ events = <<>>
  /\ (pc = "raised" /\ result = RefusedTokenError) => sent = <<>>

\* the managed identity credential of tenant t2 gave no token
C24_Witness ==
  /\ pc = "raised"
  /\ tenant_config = TenantT2
  /\ result.type = "CredentialUnavailableError"
  /\ token_calls = 1
  /\ sent = <<>>
  /\ log = <<>>

====
